---- MODULE Spec2Model ----
(***************************************************************************)
(* Position lifecycle engine of the trading simulation (the edge function  *)
(* served by Deno.serve): token intake, simulated buy, exit evaluation and *)
(* simulated sell, over the two store tables 'Meme List' and 'Holdings'.   *)
(*                                                                         *)
(* Units.  Time is counted in ticks of 16 hours, so the holding ceiling of *)
(* 16 hours is 1 tick; an invocation lasts seconds, so the clock moves     *)
(* between invocations only.  Prices are positive integers (a fixed-point  *)
(* unit of the oracle's usdPrice); 0 is the code's "price unknown" default.*)
(* A nullable column (sell_price) is <<>> for SQL NULL and <<v>> for v.    *)
(*                                                                         *)
(* The on-demand best-exit query is modelled beside it, with variables and *)
(* specifications of its own: the retrying JSON fetch (SpecRetry), the     *)
(* minute-candle fetcher (SpecFetch), the optimal-exit calculator          *)
(* (SpecBestSell) and the endpoint handler in its three copies (SpecQuery).*)
(*                                                                         *)
(* Further specifications: the price oracle adapter called on its own with *)
(* long lists (SpecOracle), two invocations of the engine that overlap     *)
(* (SpecOverlap), and invocations without end under fairness (SpecLive).   *)
(* The dashboard's side is modelled too: its copy of the calculator        *)
(* (computeBestSellInfo, in SpecBestSell) and its best-exit loader         *)
(* (loadBestSellTimes, SpecLoad).                                          *)
(***************************************************************************)
EXTENDS Integers, Sequences, FiniteSets, TLC

\* ------------------------------------------------------------------ bounds
MaxPasses == 2
MaxFeed == 2
MaxRows == 2
MaxTime == 2
MaxPrice == 3
\* rows a candle page may hold: stands for the limit=1000 of the page request
\* and of the short-page test, scaled down
PageLimit == 2
MaxHoldings == 2
\* full pages an arbitrarily answering upstream serves to one call
MaxFullPages == 2
\* Longest list of mint addresses handed to fetchJupiterPrices on its own
MaxMints == 102

\* ------------------------------------------------------- program constants
\* 16 * 60 * 60 * 1000 ms, in ticks of 16 hours
sixteenHours == 1
\* "Jupiter allows up to 100 mints per request"
JupiterBatch == 100
\* fetchJsonWithRetry(url, attempts = 3)
attempts == 3
\* sleep(250 * attempt)
backoffMs == 250
\* const maxPages = 100
maxPages == 100
\* beforeTimestamp = oldestTimestamp - 60
cursorStep == 60

\* ------------------------------------------------------------ value spaces
Symbols == {"A", "B"}
Mints == {"m1", "m2"}
Prices == 1..MaxPrice
Slots == {1, 2}

\* A token descriptor of the discovery feed: {symbol, tokenMint, ...}
FeedTokens == [symbol : Symbols, tokenMint : Mints]

\* jsonData.data.data: the latest tokens, at most MaxFeed of them, any contents
Feeds == UNION {[1..n -> FeedTokens] : n \in 0..MaxFeed}

EmptyMap == [m \in {} |-> 0]

\* The price maps { mint: { usdPrice } } an upstream reply may carry for ids
PriceMaps(ids) == UNION {[S -> Prices] : S \in SUBSET ids}

\* What the oracle's HTTP endpoint may answer to a request for ids:
\* ok is response.ok, data the parsed body
UpstreamReplies(ids) == [ok : BOOLEAN, data : PriceMaps(ids)]

Range(s) == {s[i] : i \in 1..Len(s)}

Min(a, b) == IF a < b THEN a ELSE b

VARIABLES
    clock,      \* Date.now(), in ticks
    passes,     \* number of invocations started so far
    memeList,   \* table 'Meme List': sequence of rows
    holdings,   \* table 'Holdings': sequence of rows, a row's index its identity
    inv,        \* per invocation slot: the handler's position and local variables
    hist,       \* per invocation slot: history of what the invocation did (ghost)
    lastRun     \* the feed of the last completed invocation, if it opened positions (ghost)

\* The on-demand best-exit query (a separate deployment unit: it shares no
\* state with the lifecycle engine)
VARIABLES
    rq,         \* one fetchJsonWithRetry call: loop position, attempt, lastError
    fc,         \* one fetchAllMinuteCandles call: its locals, and the upstream it talks to
    qy,         \* one request to the best-exit endpoint: position, inputs, response
    bs          \* one computeBestSell evaluation: arguments and returned value

\* The price oracle adapter, called on its own
VARIABLES
    jp          \* one fetchJupiterPrices call: argument, ids sent, returned mapping

\* The dashboard's best-exit loader
VARIABLES
    ld          \* one run of the effect on [holdings]: loadBestSellTimes and its locals

lifecycleVars == <<clock, passes, memeList, holdings, inv, hist, lastRun>>

queryVars == <<rq, fc, qy, bs>>

vars == <<clock, passes, memeList, holdings, inv, hist, lastRun, rq, fc, qy, bs, jp, ld>>

NoResponse == [status |-> 0]

IdleInv ==
    [pc |-> "idle", tokens |-> <<>>, existingSymbols |-> {}, newTokens |-> <<>>,
     prices |-> EmptyMap, boughtCount |-> 0, activeHoldings |-> <<>>, now |-> 0,
     currentPrices |-> EmptyMap, coinsToSell |-> {}, pending |-> {},
     soldCount |-> 0, response |-> NoResponse]

IdleHist ==
    [knownAtStart |-> {}, tokensInserted |-> {}, opened |-> {}, closed |-> {},
     failed |-> {}, memeInsert |-> "none", holdingsInsert |-> "none",
     buyOracle |-> "none", sellOracle |-> "none"]

SymbolsOf(rows) == {rows[i].symbol : i \in 1..Len(rows)}

\* ------------------------------------------------------- fetchJupiterPrices
RequestIdsAll(mintAddresses) == Range(mintAddresses)

\* The ids of the single upstream request: mintAddresses.slice(0, 100)
RequestIds(mintAddresses) ==
    Range(SubSeq(mintAddresses, 1, Min(Len(mintAddresses), JupiterBatch)))

FetchJupiterPricesThrowsOnFailure(mintAddresses, reply) ==
    Len(mintAddresses) > 0 /\ ~reply.ok

\* Whether fetchJupiterPrices propagates an error to its caller: the try/catch
\* encloses the request, the ok test and the JSON parse, and the catch returns.
FetchJupiterPricesThrows(mintAddresses, reply) == FALSE

FetchJupiterPricesIgnoresOk(mintAddresses, reply) ==
    IF Len(mintAddresses) = 0 THEN EmptyMap ELSE reply.data

\* The mapping fetchJupiterPrices returns when the upstream answers reply
FetchJupiterPrices(mintAddresses, reply) ==
    IF Len(mintAddresses) = 0 THEN EmptyMap
    ELSE LET ids == RequestIds(mintAddresses)
         IN  IF ~reply.ok THEN EmptyMap
             ELSE [m \in (DOMAIN reply.data) \cap ids |-> reply.data[m]]

\* ---- fetchJupiterPrices called with long lists
\* The argument lists: n addresses, all distinct (address k is the number k),
\* or distinct but for the last, which repeats the first, or all the same
MintLists ==
    {[k \in 1..n |-> k] : n \in 0..MaxMints}
    \cup {[k \in 1..n |-> IF k = n THEN 1 ELSE k] : n \in 2..MaxMints}
    \cup {[k \in 1..n |-> 1] : n \in 2..MaxMints}

\* What the oracle may answer to a request for ids: a failure, or a price for
\* every id asked, for none, or for all but one
OracleReplies(ids) ==
    [ok : BOOLEAN,
     data : {[m \in ids |-> 1], EmptyMap}
            \cup {[m \in ids \ {x} |-> 1] : x \in ids}]

IdleJp ==
    [pc |-> "idle", mintAddresses |-> <<>>, requests |-> 0, sent |-> {},
     result |-> EmptyMap]

\* --------------------------------------------------------- discovery & open
NewTokensNoFilter(tokens, existingSymbols) == tokens

\* tokens.filter(token => !existingSymbols.has(token.symbol))
NewTokens(tokens, existingSymbols) ==
    SelectSeq(tokens, LAMBDA token : token.symbol \notin existingSymbols)

\* newTokens.map(token => ({symbol, found_at, mint_address}))
MemeRecords(newTokens, t) ==
    [k \in 1..Len(newTokens) |->
        [symbol |-> newTokens[k].symbol, found_at |-> t,
         mint_address |-> newTokens[k].tokenMint]]

NewMints(newTokens) == [k \in 1..Len(newTokens) |-> newTokens[k].tokenMint]

HoldingsRecordsBySymbol(newTokens, prices, t) ==
    [k \in 1..Len(newTokens) |->
        [symbol |-> newTokens[k].symbol,
         mint_address |-> newTokens[k].tokenMint,
         bought_at |-> t,
         buy_price |-> IF prices # EmptyMap
                       THEN prices[CHOOSE m \in DOMAIN prices : TRUE] ELSE 0,
         sell_price |-> <<>>]]

\* newTokens.map(token => ({symbol, mint_address, bought_at, buy_price, sell_price: null}))
HoldingsRecords(newTokens, prices, t) ==
    [k \in 1..Len(newTokens) |->
        [symbol |-> newTokens[k].symbol,
         mint_address |-> newTokens[k].tokenMint,
         bought_at |-> t,
         buy_price |-> IF newTokens[k].tokenMint \in DOMAIN prices
                       THEN prices[newTokens[k].tokenMint] ELSE 0,
         sell_price |-> <<>>]]

\* ---------------------------------------------------------- exit evaluation
\* .from('Holdings').select('*').is('sell_price', null): the selected rows, in
\* table order, by identity (a row's other columns never change)
ActiveRows(rows) ==
    SelectSeq([i \in 1..Len(rows) |-> i], LAMBDA i : rows[i].sell_price = <<>>)

ActiveMints(rows, active) == [k \in 1..Len(active) |-> rows[active[k]].mint_address]

ShouldSellNotStrict(h, now, currentPrices) ==
    LET buyPrice == h.buy_price
        heldOver16Hours == (now - h.bought_at) > sixteenHours
        currentPrice == IF h.mint_address \in DOMAIN currentPrices
                        THEN currentPrices[h.mint_address] ELSE 0
    IN  IF heldOver16Hours THEN TRUE
        ELSE IF buyPrice <= 0 THEN FALSE
        ELSE 2 * currentPrice >= 3 * buyPrice

\* The coinsToSell filter's predicate.  currentPrice > buyPrice * 1.5 is
\* compared as 2 * currentPrice > 3 * buyPrice.
ShouldSell(h, now, currentPrices) ==
    LET buyPrice == h.buy_price
        boughtTime == h.bought_at
        heldOver16Hours == (now - boughtTime) > sixteenHours
    IN  IF heldOver16Hours THEN TRUE
        ELSE IF buyPrice <= 0 THEN FALSE
        ELSE LET currentPrice == IF h.mint_address \in DOMAIN currentPrices
                                 THEN currentPrices[h.mint_address] ELSE 0
             IN  2 * currentPrice > 3 * buyPrice

CoinsToSellPricedOnly(rows, active, now, currentPrices) ==
    {i \in Range(active) : /\ rows[i].mint_address \in DOMAIN currentPrices
                           /\ ShouldSell(rows[i], now, currentPrices)}

CoinsToSell(rows, active, now, currentPrices) ==
    {i \in Range(active) : ShouldSell(rows[i], now, currentPrices)}

SellPriceOfAny(h, currentPrices) ==
    IF currentPrices # EmptyMap
    THEN currentPrices[CHOOSE m \in DOMAIN currentPrices : TRUE] ELSE 0

\* currentPrices[holding.mint_address]?.usdPrice || 0
SellPriceOf(h, currentPrices) ==
    IF h.mint_address \in DOMAIN currentPrices THEN currentPrices[h.mint_address] ELSE 0

UpdateMatchesUnguarded(rows, mint) ==
    {i \in 1..Len(rows) : rows[i].mint_address = mint}

\* The rows an update ... .eq('mint_address', mint).is('sell_price', null) hits
UpdateMatches(rows, mint) ==
    {i \in 1..Len(rows) : rows[i].mint_address = mint /\ rows[i].sell_price = <<>>}

UpdateSellPriceUnconditional(rows, mint, price) ==
    [i \in 1..Len(rows) |->
        IF rows[i].mint_address = mint
        THEN [rows[i] EXCEPT !.sell_price = <<price>>] ELSE rows[i]]

\* The table after update({sell_price: price}) on the rows matched
UpdateSellPrice(rows, mint, price) ==
    [i \in 1..Len(rows) |->
        IF i \in UpdateMatches(rows, mint)
        THEN [rows[i] EXCEPT !.sell_price = <<price>>] ELSE rows[i]]

\* ------------------------------------------------------------------ actions
\* The tables hold at most MaxRows rows: a feed is taken when its new tokens fit
Fits(feed) ==
    LET n == Len(NewTokens(feed, SymbolsOf(memeList)))
    IN  Len(memeList) + n <= MaxRows /\ Len(holdings) + n <= MaxRows

\* ================================================================ best exit
\* The on-demand best-exit query: retrying JSON fetch, minute-candle fetcher,
\* optimal-exit calculator and the endpoint that strings them together.
\*
\* A JavaScript number is <<n>> when finite and <<>> when NaN; the same holds
\* for a nullable field of a result (<<>> is null).  Timestamps are Unix
\* seconds, instants are milliseconds since the epoch.

IsFinite(x) == x # <<>>

\* --------------------------------------------------------- fetchJsonWithRetry
Statuses == {200, 404, 429, 500, 503}

Bodies == {"b1", "b2"}

\* What one fetch(url) may do: reject (network error), or resolve to a
\* response with a status and, when the status is 2xx, a JSON body
FetchOutcomes ==
    {[kind |-> "rejected", status |-> 0, body |-> "none"]}
    \cup {[kind |-> "response", status |-> s, body |-> "none"] : s \in Statuses \ {200}}
    \cup {[kind |-> "response", status |-> 200, body |-> b] : b \in Bodies}

\* response.ok
ResponseOk(o) == o.kind = "response" /\ o.status >= 200 /\ o.status <= 299

\* const retryable = response.status === 429 || response.status >= 500
Retryable(o) == o.kind = "response" /\ (o.status = 429 \/ o.status >= 500)

\* new Error(`Upstream ${response.status} for ${url}`), or fetch's own rejection
ErrorOf(o) == <<o.kind, o.status>>

\* for (let attempt = 1; attempt <= attempts; attempt += 1)
LoopStopsEarly(attempt) == attempt < attempts

LoopContinues(attempt) == attempt <= attempts

\* One iteration of the loop, fetch(url) having done o.  The throw of a
\* non-retryable or last-attempt status sits inside the try block, so it lands
\* in the catch block of the same iteration, exactly as a rejection of fetch.
RetryIteration(attempt, o) ==
    IF ResponseOk(o)
    THEN [returned |-> TRUE, value |-> o.body, caught |-> <<>>, sleep |-> 0]
    ELSE IF o.kind = "response" /\ ~(~Retryable(o) \/ attempt = attempts)
    THEN [returned |-> FALSE, value |-> "none", caught |-> <<>>,
          sleep |-> backoffMs * attempt]
    ELSE [returned |-> FALSE, value |-> "none", caught |-> <<ErrorOf(o)>>,
          sleep |-> IF attempt < attempts THEN backoffMs * attempt ELSE 0]

IdleRq ==
    [pc |-> "idle", attempt |-> 0, lastError |-> <<>>, slept |-> 0,
     value |-> "none", thrown |-> <<>>, log |-> <<>>]

\* ------------------------------------------------------ fetchAllMinuteCandles
\* Candle timestamps of the model, one or more minutes apart
Timestamps == {100, 160, 220}

Highs == {1, 2, 3, 5}

Candles == [timestamp : Timestamps, high : Highs]

\* Series as the fetcher returns them: strictly ascending by timestamp
Series ==
    {s \in UNION {[1..n -> Candles] : n \in 0..Cardinality(Timestamps)} :
        \A i \in 1..Len(s) - 1 : s[i].timestamp < s[i + 1].timestamp}

\* A field of a raw ohlcv row, as the JSON carries it: a number, a string of
\* digits, or something Number() turns into NaN
RawNum(n) == <<"num", n>>

RawStr(n) == <<"str", n>>

RawJunk == <<"junk", 0>>

\* Number(x)
NumberOf(raw) == IF raw[1] \in {"junk", "undefined"} THEN <<>> ELSE <<raw[2]>>

\* Raw rows [timestamp, open, high, low, close, volume]; the code reads row[0]
\* and row[2] only.  Every well-formed row with a high of 1 or 2, and one row
\* for each way of being malformed.
RawRows ==
    {[r0 |-> RawNum(t), r2 |-> RawStr(h)] : t \in Timestamps, h \in {1, 2}}
    \cup {[r0 |-> RawJunk, r2 |-> RawStr(1)],
          [r0 |-> RawNum(100), r2 |-> RawJunk],
          [r0 |-> RawNum(100), r2 |-> RawStr(0)]}

\* ohlcv_list of one response: at most PageLimit rows, the limit= of the request
Pages == UNION {[1..n -> RawRows] : n \in 0..PageLimit}

FetchVariants == {"api", "dashboard"}

\* The dashboard copy declares row[0] a number and takes it without converting
\* or testing it; the declaration is gone at run time, so the rows it meets
\* are those of the other copies
DashboardPages == Pages

\* A timestamp taken from a row[0] that is no number: it stays in the candle as
\* it came, and arithmetic on it gives NaN
NotANumber == 0 - 1

\* ohlcvList.map(...).filter(...): the candles of one page
PageCandles(variant, ohlcvList) ==
    LET mapped == [i \in 1..Len(ohlcvList) |->
                     [timestamp |-> IF variant = "api"
                                    THEN NumberOf(ohlcvList[i].r0)
                                    ELSE IF ohlcvList[i].r0[1] = "num"
                                    THEN <<ohlcvList[i].r0[2]>>
                                    ELSE <<NotANumber>>,
                      high |-> NumberOf(ohlcvList[i].r2)]]
        Keep(row) == /\ variant = "api" => IsFinite(row.timestamp)
                     /\ IsFinite(row.high)
                     /\ row.high[1] > 0
        kept == SelectSeq(mapped, Keep)
    IN  [i \in 1..Len(kept) |->
           [timestamp |-> kept[i].timestamp[1], high |-> kept[i].high[1]]]

\* beforeTimestamp: null, a number, Infinity (Math.min of nothing, less 60) or
\* NaN (Math.min over something that is no number, less 60)
NullCursor == [kind |-> "null", value |-> 0]

NaNCursor == [kind |-> "NaN", value |-> 0]

NumCursor(n) == [kind |-> "number", value |-> n]

InfCursor == [kind |-> "Infinity", value |-> 0]

\* Math.min(...pageCandles.map((row) => row.timestamp)): Infinity of nothing
OldestTimestamp(pageCandles) ==
    IF Len(pageCandles) = 0 THEN InfCursor
    ELSE IF \E i \in 1..Len(pageCandles) : pageCandles[i].timestamp = NotANumber
    THEN NaNCursor
    ELSE NumCursor(CHOOSE t \in {pageCandles[i].timestamp : i \in 1..Len(pageCandles)} :
                      \A i \in 1..Len(pageCandles) : t <= pageCandles[i].timestamp)

\* oldestTimestamp - 60
NextCursor(oldestTimestamp) ==
    IF oldestTimestamp.kind # "number" THEN oldestTimestamp
    ELSE NumCursor(oldestTimestamp.value - cursorStep)

\* Number.isFinite(stopBeforeTimestamp) && oldestTimestamp <= stopBeforeTimestamp
FloorReachedReversed(stopBeforeTimestamp, oldestTimestamp) ==
    /\ IsFinite(stopBeforeTimestamp)
    /\ oldestTimestamp.kind = "number"
    /\ oldestTimestamp.value >= stopBeforeTimestamp[1]

FloorReached(stopBeforeTimestamp, oldestTimestamp) ==
    /\ IsFinite(stopBeforeTimestamp)
    /\ oldestTimestamp.kind = "number"
    /\ oldestTimestamp.value <= stopBeforeTimestamp[1]

\* while (pageCount < maxPages)
WhileConditionInclusive(pageCount) == pageCount <= maxPages

WhileCondition(pageCount) == pageCount < maxPages

\* The body of the while loop from the parsed response on: the locals after
\* it, and whether the loop was left by a break
LoopBody(variant, stopBeforeTimestamp, st, ohlcvList) ==
    IF Len(ohlcvList) = 0 THEN [st EXCEPT !.break = TRUE]
    ELSE
    LET pageCandles == PageCandles(variant, ohlcvList)
        pushed == [st EXCEPT !.candles = st.candles \o pageCandles]
        oldestTimestamp == OldestTimestamp(pageCandles)
    IN  IF variant = "api" /\ Len(pageCandles) = 0
        THEN [pushed EXCEPT !.break = TRUE]
        ELSE IF /\ variant = "api"
                /\ FloorReached(stopBeforeTimestamp, oldestTimestamp)
        THEN [pushed EXCEPT !.break = TRUE]
        ELSE [pushed EXCEPT !.beforeTimestamp = NextCursor(oldestTimestamp),
                            !.pageCount = st.pageCount + 1,
                            !.break = Len(ohlcvList) < PageLimit]

\* new Map(), then uniqueByTimestamp.set(candle.timestamp, candle) for every
\* candle in turn, then Array.from(uniqueByTimestamp.values()): one entry per
\* timestamp, in the order the timestamps were first set, each holding the
\* candle set last under it
KeepAll(candles) == candles

UniqueByTimestampFirstWins(candles) ==
    LET n == Len(candles)
        FirstSet(i) == \A j \in 1..(i - 1) : candles[j].timestamp # candles[i].timestamp
        keys == SelectSeq([i \in 1..n |-> i], FirstSet)
    IN  [k \in 1..Len(keys) |-> candles[keys[k]]]

UniqueByTimestamp(candles) ==
    LET n == Len(candles)
        FirstSet(i) == \A j \in 1..(i - 1) : candles[j].timestamp # candles[i].timestamp
        keys == SelectSeq([i \in 1..n |-> i], FirstSet)
        LastSet(i) == CHOOSE j \in i..n :
                          /\ candles[j].timestamp = candles[i].timestamp
                          /\ \A k \in (j + 1)..n : candles[k].timestamp # candles[i].timestamp
    IN  [k \in 1..Len(keys) |-> candles[LastSet(keys[k])]]

\* .sort((a, b) => a.timestamp - b.timestamp): the stable sort by timestamp;
\* an element goes behind those with a smaller timestamp and those with the
\* same timestamp that stood before it
SortByTimestamp(list) ==
    LET n == Len(list)
        Place(i) == 1 + Cardinality({j \in 1..n :
                          \/ list[j].timestamp < list[i].timestamp
                          \/ list[j].timestamp = list[i].timestamp /\ j < i})
    IN  [k \in 1..n |-> list[CHOOSE i \in 1..n : Place(i) = k]]

\* What the sort may leave.  With a timestamp that is no number the
\* comparator returns NaN, which sort takes for 0: the comparator is not a
\* consistent ordering and the order of the result is up to the engine, some
\* permutation of the list
SortOutcomes(list) ==
    IF \A i \in 1..Len(list) : list[i].timestamp # NotANumber
    THEN {SortByTimestamp(list)}
    ELSE {[k \in 1..Len(list) |-> list[f[k]]] : f \in Permutations(1..Len(list))}

\* The statements after the loop: the value fetchAllMinuteCandles returns
ReturnedSeries(candles) == SortByTimestamp(UniqueByTimestamp(candles))

ReturnedSeriesOutcomes(candles) == SortOutcomes(UniqueByTimestamp(candles))

\* A failed page request: the exception leaves fetchAllMinuteCandles, and the
\* candles collected so far go with its frame
PageFailureKeepsCandles(candles) == [pc |-> "returned", series |-> ReturnedSeries(candles)]

PageFailure(candles) == [pc |-> "threw", series |-> <<>>]

\* ---- the upstream (GeckoTerminal ohlcv endpoint)
\* An upstream that honours before_timestamp serves, newest first, the newest
\* PageLimit candles of its history that are older than the cursor (or not
\* newer, if it reads the cursor inclusively)
NotAfter(t, cursor, inclusive) ==
    \/ cursor.kind # "number"
    \/ t < cursor.value
    \/ inclusive /\ t = cursor.value

RawOf(candle) == [r0 |-> RawNum(candle.timestamp), r2 |-> RawStr(candle.high)]

HonestPage(history, inclusive, cursor) ==
    LET Visible(c) == NotAfter(c.timestamp, cursor, inclusive)
        visible == SelectSeq(history, Visible)
        n == Min(Len(visible), PageLimit)
    IN  [i \in 1..n |-> RawOf(visible[Len(visible) + 1 - i])]

AnyUpstream == [mode |-> "any", page |-> <<>>, history |-> <<>>, inclusive |-> FALSE]

RepeatUpstream(pg) == [mode |-> "repeat", page |-> pg, history |-> <<>>, inclusive |-> FALSE]

HonestUpstream(h, incl) == [mode |-> "honest", page |-> <<>>, history |-> h, inclusive |-> incl]

\* The upstreams a call may face: one answering anything (but with at most
\* MaxFullPages full pages), one repeating the same page for ever, one
\* honouring the cursor over a fixed history
Upstreams(variant) ==
    {AnyUpstream}
    \cup {RepeatUpstream(pg) : pg \in IF variant = "api" THEN Pages ELSE DashboardPages}
    \cup {HonestUpstream(h, incl) : h \in Series, incl \in BOOLEAN}

\* The ohlcv lists a successful page request may carry
PageReplies(variant, upstream, st) ==
    CASE upstream.mode = "any" ->
           {pg \in IF variant = "api" THEN Pages ELSE DashboardPages :
               st.pageCount < MaxFullPages \/ Len(pg) < PageLimit}
      [] upstream.mode = "repeat" -> {upstream.page}
      [] upstream.mode = "honest" ->
           {HonestPage(upstream.history, upstream.inclusive, st.beforeTimestamp)}

\* fetchAllMinuteCandles run to its return against an upstream that honours the
\* cursor and never fails
RECURSIVE RunLoop(_, _, _, _)
RunLoop(variant, stopBeforeTimestamp, upstream, st) ==
    IF st.break \/ ~WhileCondition(st.pageCount) THEN st
    ELSE RunLoop(variant, stopBeforeTimestamp, upstream,
                 LoopBody(variant, stopBeforeTimestamp, st,
                          HonestPage(upstream.history, upstream.inclusive,
                                     st.beforeTimestamp)))

FetchAllMinuteCandles(variant, upstream, stopBeforeTimestamp) ==
    ReturnedSeries(RunLoop(variant, stopBeforeTimestamp, upstream,
                           [candles |-> <<>>, beforeTimestamp |-> NullCursor,
                            pageCount |-> 0, break |-> FALSE]).candles)

IdleFc ==
    [pc |-> "idle", variant |-> "api", upstream |-> AnyUpstream,
     stopBeforeTimestamp |-> <<>>,
     candles |-> <<>>, beforeTimestamp |-> NullCursor, pageCount |-> 0, break |-> FALSE,
     requests |-> 0, pages |-> <<>>, failed |-> FALSE, series |-> <<>>]

\* ------------------------------------------------------------- computeBestSell
nullBestSell == [bestSellAt |-> <<>>, bestSellPrice |-> <<>>, bestPlPercent |-> <<>>]

\* A boughtAt string: an ISO date of some instant (ms since the epoch), or text
\* that Date cannot parse, or the empty string
IsoDate(ms) == <<"iso", ms>>

NotADate == <<"junk", 0>>

EmptyString == <<"empty", 0>>

\* new Date(boughtAt).getTime(): NaN for an invalid date
GetTime(boughtAt) == IF boughtAt[1] = "iso" THEN <<boughtAt[2]>> ELSE <<>>

\* Math.floor(new Date(boughtAt).getTime() / 1000)
UnixSeconds(boughtAt) ==
    LET ms == GetTime(boughtAt)
    IN  IF IsFinite(ms) THEN <<ms[1] \div 1000>> ELSE <<>>

\* new Date(timestamp * 1000).toISOString()
ToISOString(timestamp) == <<"ISO", timestamp * 1000>>

\* !Number.isFinite(buyPrice) || buyPrice <= 0
BuyPriceRejectedNaNOnly(buyPrice) == ~IsFinite(buyPrice)

BuyPriceRejected(buyPrice) == ~IsFinite(buyPrice) \/ buyPrice[1] <= 0

\* !Number.isFinite(boughtAtUnixSeconds) || boughtAtUnixSeconds <= 0
BoughtAtRejected(boughtAtUnixSeconds) ==
    ~IsFinite(boughtAtUnixSeconds) \/ boughtAtUnixSeconds[1] <= 0

\* candle.timestamp >= boughtAtUnixSeconds
AfterBuyStrictly(candle, boughtAtUnixSeconds) == candle.timestamp > boughtAtUnixSeconds

AfterBuy(candle, boughtAtUnixSeconds) == candle.timestamp >= boughtAtUnixSeconds

\* (best, current) => (current.high > best.high ? current : best)
BetterOrEqual(best, current) == IF current.high >= best.high THEN current ELSE best

Better(best, current) == IF current.high > best.high THEN current ELSE best

\* afterBuyCandles.reduce(...) without an initial value: a left fold from the
\* first element
RECURSIVE ReduceFrom(_, _, _)
ReduceFrom(best, list, i) ==
    IF i > Len(list) THEN best
    ELSE ReduceFrom(Better(best, list[i]), list, i + 1)

\* ((bestCandle.high - buyPrice) / buyPrice) * 100; the buy prices of the model
\* divide 100, so the quotient is exact
PlPercent(high, buyPrice) == ((high - buyPrice) * 100) \div buyPrice

ComputeBestSell(buyPrice, boughtAt, candles) ==
    IF BuyPriceRejected(buyPrice) THEN nullBestSell
    ELSE
    LET boughtAtUnixSeconds == UnixSeconds(boughtAt)
    IN  IF BoughtAtRejected(boughtAtUnixSeconds) THEN nullBestSell
        ELSE
        LET IsAfter(c) == AfterBuy(c, boughtAtUnixSeconds[1])
            afterBuyCandles == SelectSeq(candles, IsAfter)
        IN  IF Len(afterBuyCandles) = 0 THEN nullBestSell
            ELSE
            LET bestCandle == ReduceFrom(afterBuyCandles[1], afterBuyCandles, 2)
            IN  [bestSellAt |-> ToISOString(bestCandle.timestamp),
                 bestSellPrice |-> <<bestCandle.high>>,
                 bestPlPercent |-> <<PlPercent(bestCandle.high, buyPrice[1])>>]

\* new Date(bestCandle.timestamp * 1000).toLocaleString(): the same instant,
\* written in the browser's locale
ToLocaleString(timestamp) == <<"locale", timestamp * 1000>>

\* holding.buy_price <= 0
HoldingPriceRejected(buy_price) == IsFinite(buy_price) /\ buy_price[1] <= 0

\* computeBestSellInfo(holding, candles) of the dashboard; a comparison with
\* NaN is false, so an invalid bought_at leaves no candle after the filter
ComputeBestSellInfo(buy_price, bought_at, candles) ==
    IF HoldingPriceRejected(buy_price) THEN nullBestSell
    ELSE
    LET boughtAtUnixSeconds == UnixSeconds(bought_at)
        IsAfter(c) ==
            IsFinite(boughtAtUnixSeconds) /\ AfterBuy(c, boughtAtUnixSeconds[1])
        afterBuyCandles == SelectSeq(candles, IsAfter)
    IN  IF Len(afterBuyCandles) = 0 THEN nullBestSell
        ELSE
        LET bestCandle == ReduceFrom(afterBuyCandles[1], afterBuyCandles, 2)
        IN  [bestSellAt |-> ToLocaleString(bestCandle.timestamp),
             bestSellPrice |-> <<bestCandle.high>>,
             bestPlPercent |->
                 IF IsFinite(buy_price)
                 THEN <<PlPercent(bestCandle.high, buy_price[1])>>
                 ELSE <<>>]

\* Arguments the calculator may be given
BuyPrices == {<<>>, <<0 - 5>>, <<0>>, <<1>>, <<2>>, <<4>>}

BoughtAts ==
    {NotADate} \cup {IsoDate(ms) : ms \in {0 - 1000, 0, 999, 100000, 160500, 221000}}

\* holding.buy_price as the Holdings table delivers it in JSON: a number
HoldingBuyPrices == BuyPrices \ {<<>>}

\* stopBeforeTimestamp: absent (the copies without the parameter), or the
\* purchase second of some boughtAt (NaN for an invalid date)
StopBefores == {<<>>} \cup {UnixSeconds(boughtAt) : boughtAt \in BoughtAts}

IdleBs ==
    [pc |-> "idle", buyPrice |-> <<>>, boughtAt |-> NotADate, candles |-> <<>>,
     result |-> nullBestSell]

\* ------------------------------------------------ the /api/best-sell endpoint
\* Three copies of the handler: "retrying" fetches through fetchJsonWithRetry
\* and passes the purchase second as the floor; "serverless" (api/best-sell.js)
\* and "express" (server/apiServer.js) fetch once and pass no floor
HandlerVariants == {"retrying", "serverless", "express"}

Methods == {"GET", "POST"}

MintAddresses == {"", "m1"}

\* req.query.buyPrice as it arrives: absent, empty, not a number, or a number
\* in text
RawUndefined == <<"undefined", 0>>

RawEmpty == <<"empty", 0>>

QueryBuyPrices ==
    {RawUndefined, RawEmpty, RawJunk} \cup {RawStr(n) : n \in {0 - 5, 0, 1, 2, 4}}

\* poolsJson.data: the addresses of the pools of the token, best first; "" is
\* an entry that carries no address
PoolListings == {<<>>, <<"p1">>, <<"p2", "p1">>, <<"">>, <<"", "p1">>}

TopPoolAddressLast(listing) ==
    IF Len(listing) = 0 THEN "" ELSE listing[Len(listing)]

\* poolsJson?.data?.[0]?.attributes?.address, "" when there is none
TopPoolAddress(listing) ==
    IF Len(listing) = 0 THEN "" ELSE listing[1]

NoAnswer == [status |-> 0, result |-> nullBestSell, warning |-> <<>>, error |-> <<>>]

\* res.status(status).json({ error })
ErrorAnswer(status, message) ==
    [status |-> status, result |-> nullBestSell, warning |-> <<>>, error |-> <<message>>]

\* res.status(200).json(result)
ResultAnswer(result) ==
    [status |-> 200, result |-> result, warning |-> <<>>, error |-> <<>>]

\* The catch block of the handler
CatchAnswer(variant, message) ==
    IF variant = "retrying"
    THEN [status |-> 200, result |-> nullBestSell, warning |-> <<message>>, error |-> <<>>]
    ELSE ErrorAnswer(502, message)

InputRejectedPriceUnchecked(mintAddress, boughtAt, buyPrice) ==
    mintAddress = "" \/ boughtAt = EmptyString

\* !mintAddress || !boughtAt || !Number.isFinite(buyPrice)
InputRejected(mintAddress, boughtAt, buyPrice) ==
    mintAddress = "" \/ boughtAt = EmptyString \/ ~IsFinite(buyPrice)

\* The floor the handler hands to fetchAllMinuteCandles
FloorOf(variant, boughtAt) ==
    IF variant = "retrying" THEN UnixSeconds(boughtAt) ELSE <<>>

IdleQy ==
    [pc |-> "idle", variant |-> "retrying", method |-> "GET", mintAddress |-> "",
     boughtAt |-> EmptyString, rawBuyPrice |-> RawUndefined, buyPrice |-> <<>>,
     listing |-> <<>>, poolAddress |-> "",
     caught |-> <<>>, poolRequests |-> 0, response |-> NoAnswer]

\* No query under way
QueryIdle ==
    /\ rq = IdleRq
    /\ fc = IdleFc
    /\ qy = IdleQy
    /\ bs = IdleBs

\* ------------------------------------- the dashboard's loadBestSellTimes
\* Two copies of the dashboard: "direct" resolves the pool and fetches the
\* candles itself, "api" asks the /api/best-sell endpoint
LoaderVariants == {"direct", "api"}

\* Rows of the Holdings table as the dashboard selects them
HoldingBoughtAts == {IsoDate(100000), IsoDate(160500)}

HoldingRows ==
    [symbol : Symbols, bought_at : HoldingBoughtAts, buy_price : {<<0>>, <<1>>},
     mint_address : Mints]

HoldingLists == UNION {[1..n -> HoldingRows] : n \in 0..MaxHoldings}

\* `${holding.symbol}-${holding.bought_at}`
KeyOf(holding) == <<holding.symbol, "-", holding.bought_at>>

\* What the try block of one holding comes to: it threw, or it produced info
Thrown(step) == [threw |-> TRUE, step |-> step, info |-> nullBestSell]

Produced(info) == [threw |-> FALSE, step |-> "none", info |-> info]

\* fetchTopSolanaPoolAddress, fetchAllMinuteCandles, computeBestSellInfo in
\* turn: the first throws on a failed request or a missing pool, the second on
\* a failed page request
DirectOutcomes(holding) ==
    {Thrown("pool"), Thrown("candles")}
        \cup {Produced(ComputeBestSellInfo(holding.buy_price, holding.bought_at, candles)) :
                 candles \in Series}

\* What the endpoint may answer to the request for a holding, by its copies
ApiAnswers(holding) ==
    {ErrorAnswer(400, "missing"), CatchAnswer("retrying", "upstream"),
     CatchAnswer("serverless", "upstream")}
        \cup {ResultAnswer(ComputeBestSell(holding.buy_price, holding.bought_at, candles)) :
                 candles \in Series}

\* response.ok
AnswerOk(answer) == answer.status >= 200 /\ answer.status <= 299

\* fetchBestSellInfoFromApi(holding): throws when fetch does or the response
\* is not ok, else the three fields of the body, null where absent
FetchBestSellInfoFromApi(answer) ==
    IF ~AnswerOk(answer) THEN Thrown("api") ELSE Produced(answer.result)

ApiOutcomes(holding) ==
    {Thrown("api")} \cup {FetchBestSellInfoFromApi(answer) : answer \in ApiAnswers(holding)}

HoldingOutcomes(variant, holding) ==
    IF variant = "direct" THEN DirectOutcomes(holding) ELSE ApiOutcomes(holding)

\* nextBestSellByHolding[key] = value
SetEntry(record, key, value) ==
    [k \in DOMAIN record \cup {key} |-> IF k = key THEN value ELSE record[k]]

\* {}
EmptyRecord == [k \in {} |-> nullBestSell]

\* The catch block of one holding writes the all-absent entry
EntryOf(outcome) == IF outcome.threw THEN nullBestSell ELSE outcome.info

IdleLd ==
    [pc |-> "idle", variant |-> "direct", holdings |-> <<>>, i |-> 0,
     nextBestSellByHolding |-> EmptyRecord, outcomes |-> <<>>, cancelled |-> FALSE,
     bestSellByHolding |-> EmptyRecord, bestSellLoading |-> FALSE]

\* Empty store, no invocation under way
LifecycleIdle ==
    /\ clock = 0
    /\ passes = 0
    /\ memeList = <<>>
    /\ holdings = <<>>
    /\ inv = [p \in Slots |-> IdleInv]
    /\ hist = [p \in Slots |-> IdleHist]
    /\ lastRun = <<>>

Init ==
    /\ LifecycleIdle
    /\ QueryIdle
    /\ jp = IdleJp
    /\ ld = IdleLd

\* The scheduler invokes the function, some time after the last invocation
StartPass(p) ==
    /\ inv[p].pc = "idle"
    /\ passes < MaxPasses
    /\ passes' = passes + 1
    /\ clock' \in clock..MaxTime
    /\ inv' = [inv EXCEPT ![p].pc = "fetchFeed"]
    /\ hist' = [hist EXCEPT ![p].knownAtStart = SymbolsOf(memeList)]
    /\ UNCHANGED <<memeList, holdings, lastRun>>
    /\ UNCHANGED queryVars
    /\ UNCHANGED <<jp, ld>>

\* The catch block: a 500 response carrying the error
ErrorResponse == [status |-> 500]

\* 2. Fetch the discovery feed; an invalid body throws 'Invalid API response'
FetchFeed(p) ==
    /\ inv[p].pc = "fetchFeed"
    /\ \/ \E feed \in Feeds :
            /\ Fits(feed)
            /\ inv' = [inv EXCEPT ![p].pc = "selectSymbols", ![p].tokens = feed]
       \/ inv' = [inv EXCEPT ![p].pc = "done", ![p].response = ErrorResponse]
    /\ UNCHANGED <<clock, passes, memeList, holdings, hist, lastRun>>
    /\ UNCHANGED queryVars
    /\ UNCHANGED <<jp, ld>>

\* 3.-4. Read the known symbols and keep the feed tokens whose symbol is new
SelectSymbols(p) ==
    /\ inv[p].pc = "selectSymbols"
    /\ \/ LET existing == SymbolsOf(memeList)
              new == NewTokens(inv[p].tokens, existing)
          IN  inv' = [inv EXCEPT ![p].existingSymbols = existing,
                                 ![p].newTokens = new,
                                 ![p].boughtCount = 0,
                                 ![p].pc = IF Len(new) > 0 THEN "insertMeme"
                                           ELSE "selectActive"]
       \/ inv' = [inv EXCEPT ![p].pc = "done", ![p].response = ErrorResponse]
    /\ UNCHANGED <<clock, passes, memeList, holdings, hist, lastRun>>
    /\ UNCHANGED queryVars
    /\ UNCHANGED <<jp, ld>>

\* A. Insert into 'Meme List'; the result of the insert is not looked at
InsertMeme(p) ==
    /\ inv[p].pc = "insertMeme"
    /\ \/ /\ memeList' = memeList \o MemeRecords(inv[p].newTokens, clock)
          /\ hist' = [hist EXCEPT
                ![p].tokensInserted = (Len(memeList) + 1)..Len(memeList'),
                ![p].memeInsert = "ok"]
       \/ /\ memeList' = memeList
          /\ hist' = [hist EXCEPT ![p].memeInsert = "failed"]
    /\ inv' = [inv EXCEPT ![p].pc = "fetchBuyPrices"]
    /\ UNCHANGED <<clock, passes, holdings, lastRun>>
    /\ UNCHANGED queryVars
    /\ UNCHANGED <<jp, ld>>

\* B. Fetch the prices of the new tokens' mints
FetchBuyPrices(p) ==
    /\ inv[p].pc = "fetchBuyPrices"
    /\ LET newMints == NewMints(inv[p].newTokens)
       IN  \E reply \in UpstreamReplies(RequestIds(newMints)) :
             /\ inv' = IF FetchJupiterPricesThrows(newMints, reply)
                       THEN [inv EXCEPT ![p].pc = "done", ![p].response = ErrorResponse]
                       ELSE [inv EXCEPT ![p].pc = "insertHoldings",
                                        ![p].prices = FetchJupiterPrices(newMints, reply)]
             /\ hist' = [hist EXCEPT
                   ![p].buyOracle = IF reply.ok THEN "ok" ELSE "failed"]
    /\ UNCHANGED <<clock, passes, memeList, holdings, lastRun>>
    /\ UNCHANGED queryVars
    /\ UNCHANGED <<jp, ld>>

\* C. Insert into 'Holdings'; on error boughtCount stays 0
InsertHoldings(p) ==
    /\ inv[p].pc = "insertHoldings"
    /\ LET holdingsRecords == HoldingsRecords(inv[p].newTokens, inv[p].prices, clock)
       IN  \/ /\ holdings' = holdings \o holdingsRecords
              /\ inv' = [inv EXCEPT ![p].pc = "selectActive",
                                    ![p].boughtCount = Len(holdingsRecords)]
              /\ hist' = [hist EXCEPT
                    ![p].opened = (Len(holdings) + 1)..Len(holdings'),
                    ![p].holdingsInsert = "ok"]
           \/ /\ holdings' = holdings
              /\ inv' = [inv EXCEPT ![p].pc = "selectActive"]
              /\ hist' = [hist EXCEPT ![p].holdingsInsert = "failed"]
    /\ UNCHANGED <<clock, passes, memeList, lastRun>>
    /\ UNCHANGED queryVars
    /\ UNCHANGED <<jp, ld>>

\* 5. Fetch the active holdings; on error, or none, exit evaluation is skipped
SelectActive(p) ==
    /\ inv[p].pc = "selectActive"
    /\ \/ LET active == ActiveRows(holdings)
          IN  inv' = [inv EXCEPT ![p].activeHoldings = active,
                                 ![p].soldCount = 0,
                                 ![p].pc = IF Len(active) > 0 THEN "fetchCurrentPrices"
                                           ELSE "respond"]
       \/ inv' = [inv EXCEPT ![p].soldCount = 0, ![p].pc = "respond"]
    /\ UNCHANGED <<clock, passes, memeList, holdings, hist, lastRun>>
    /\ UNCHANGED queryVars
    /\ UNCHANGED <<jp, ld>>

\* Take now, fetch the current prices of the active holdings and filter
FetchCurrentPrices(p) ==
    /\ inv[p].pc = "fetchCurrentPrices"
    /\ LET activeMints == ActiveMints(holdings, inv[p].activeHoldings)
       IN  \E reply \in UpstreamReplies(RequestIds(activeMints)) :
             /\ inv' =
                  IF FetchJupiterPricesThrows(activeMints, reply)
                  THEN [inv EXCEPT ![p].pc = "done", ![p].response = ErrorResponse]
                  ELSE LET currentPrices == FetchJupiterPrices(activeMints, reply)
                           coinsToSell == CoinsToSell(holdings, inv[p].activeHoldings,
                                                      clock, currentPrices)
                       IN  [inv EXCEPT ![p].now = clock,
                                       ![p].currentPrices = currentPrices,
                                       ![p].coinsToSell = coinsToSell,
                                       ![p].pending = coinsToSell,
                                       ![p].pc = IF coinsToSell # {} THEN "update"
                                                 ELSE "respond"]
             /\ hist' = [hist EXCEPT
                   ![p].sellOracle = IF reply.ok THEN "ok" ELSE "failed"]
    /\ UNCHANGED <<clock, passes, memeList, holdings, lastRun>>
    /\ UNCHANGED queryVars
    /\ UNCHANGED <<jp, ld>>

\* One of the parallel updates of Promise.all, for coin i of coinsToSell; its
\* result is not looked at.  After the last one soldCount = coinsToSell.length.
UpdateHolding(p, i) ==
    /\ inv[p].pc = "update"
    /\ i \in inv[p].pending
    /\ LET holding == holdings[i]
           currentPrice == SellPriceOf(holding, inv[p].currentPrices)
           left == inv[p].pending \ {i}
           after == [inv EXCEPT ![p].pending = left,
                                ![p].soldCount = IF left = {}
                                                 THEN Cardinality(inv[p].coinsToSell)
                                                 ELSE inv[p].soldCount,
                                ![p].pc = IF left = {} THEN "respond" ELSE "update"]
       IN  \/ /\ holdings' = UpdateSellPrice(holdings, holding.mint_address, currentPrice)
              /\ hist' = [hist EXCEPT ![p].closed =
                            hist[p].closed \cup UpdateMatches(holdings, holding.mint_address)]
              /\ inv' = after
           \/ /\ holdings' = holdings
              /\ hist' = [hist EXCEPT ![p].failed = hist[p].failed \cup {i}]
              /\ inv' = after
    /\ UNCHANGED <<clock, passes, memeList, lastRun>>
    /\ UNCHANGED queryVars
    /\ UNCHANGED <<jp, ld>>

\* 6. Return the summary
Respond(p) ==
    /\ inv[p].pc = "respond"
    /\ inv' = [inv EXCEPT ![p].pc = "done",
                          ![p].response = [status |-> 200,
                                           new_memes_added |-> inv[p].boughtCount,
                                           trades_closed |-> inv[p].soldCount]]
    /\ UNCHANGED <<clock, passes, memeList, holdings, hist, lastRun>>
    /\ UNCHANGED queryVars
    /\ UNCHANGED <<jp, ld>>

\* The invocation is over: nothing of it survives but the store
Finish(p) ==
    /\ inv[p].pc = "done"
    /\ lastRun' = IF inv[p].response.status = 200 /\ inv[p].boughtCount > 0
                  THEN inv[p].tokens ELSE <<>>
    /\ inv' = [inv EXCEPT ![p] = IdleInv]
    /\ hist' = [hist EXCEPT ![p] = IdleHist]
    /\ UNCHANGED <<clock, passes, memeList, holdings>>
    /\ UNCHANGED queryVars
    /\ UNCHANGED <<jp, ld>>

Step(p) ==
    \/ StartPass(p)
    \/ FetchFeed(p)
    \/ SelectSymbols(p)
    \/ InsertMeme(p)
    \/ FetchBuyPrices(p)
    \/ InsertHoldings(p)
    \/ SelectActive(p)
    \/ FetchCurrentPrices(p)
    \/ \E i \in 1..Len(holdings) : UpdateHolding(p, i)
    \/ Respond(p)
    \/ Finish(p)

\* Passes run one after another: each invocation runs to completion before the
\* next is triggered
Next == Step(1)

Spec == Init /\ [][Next]_vars

\* ---- two invocations that overlap
\* The scheduler's trigger does not wait for the invocation before it: two
\* invocations run at once, each step of either an await on the store or on
\* an upstream.  The store is one an earlier pass has left, with open
\* positions (symbols and mints being interchangeable, its first token is A
\* at m1; the oracle priced its mints at 1 or failed); the feed lists nothing
\* while the two run, so that neither has anything to insert.
OverlapStores ==
    {[memeList |-> MemeRecords(feed, 0), holdings |-> HoldingsRecords(feed, prices, 0)] :
        feed \in {f \in Feeds : /\ Len(f) > 0
                                /\ f[1] = [symbol |-> "A", tokenMint |-> "m1"]},
        prices \in {EmptyMap, [m \in Mints |-> 1]}}

InitOverlap ==
    /\ clock = 0
    /\ passes = 0
    /\ \E store \in OverlapStores :
         /\ memeList = store.memeList
         /\ holdings = store.holdings
    /\ inv = [p \in Slots |-> IdleInv]
    /\ hist = [p \in Slots |-> IdleHist]
    /\ lastRun = <<>>
    /\ QueryIdle
    /\ jp = IdleJp
    /\ ld = IdleLd

OverlapStep(p) ==
    \/ StartPass(p)
    \/ FetchFeed(p) /\ inv'[p].tokens = <<>>
    \/ SelectSymbols(p)
    \/ SelectActive(p)
    \/ FetchCurrentPrices(p)
    \/ \E i \in 1..Len(holdings) : UpdateHolding(p, i)
    \/ Respond(p)
    \/ Finish(p)

NextOverlap ==
    \/ OverlapStep(1)
    \/ OverlapStep(2)

SpecOverlap == InitOverlap /\ [][NextOverlap]_vars

\* ---- invocations without end
\* The scheduler goes on invoking the function, one invocation after the
\* other, over a store an earlier pass has left; the feed lists nothing new.
\* The scheduler's next trigger, with no count kept
Reinvoke(p) ==
    /\ inv[p].pc = "idle"
    /\ clock' \in clock..MaxTime
    /\ inv' = [inv EXCEPT ![p].pc = "fetchFeed"]
    /\ hist' = [hist EXCEPT ![p].knownAtStart = SymbolsOf(memeList)]
    /\ UNCHANGED <<passes, memeList, holdings, lastRun>>
    /\ UNCHANGED queryVars
    /\ UNCHANGED <<jp, ld>>

LiveStep(p) ==
    \/ Reinvoke(p)
    \/ FetchFeed(p) /\ inv'[p].tokens = <<>>
    \/ SelectSymbols(p)
    \/ SelectActive(p)
    \/ FetchCurrentPrices(p)
    \/ \E i \in 1..Len(holdings) : UpdateHolding(p, i)
    \/ Respond(p)
    \/ Finish(p)

NextLive == LiveStep(1)

\* The function runs on once invoked and is invoked again; time passes
\* between invocations; the feed, the two selects and the update do not fail
\* for ever.  Nothing is asked of the oracle.
Fairness ==
    /\ WF_vars(NextLive)
    /\ SF_vars(Reinvoke(1) /\ clock' > clock)
    /\ SF_vars(FetchFeed(1) /\ inv'[1].tokens = <<>> /\ inv'[1].pc = "selectSymbols")
    /\ SF_vars(SelectSymbols(1) /\ inv'[1].pc # "done")
    /\ SF_vars(SelectActive(1) /\ inv'[1].pc = "fetchCurrentPrices")
    /\ SF_vars(\E i \in 1..Len(holdings) : UpdateHolding(1, i) /\ holdings' # holdings)

SpecLive == InitOverlap /\ [][NextLive]_vars /\ Fairness

\* ============================================================ best-exit query
\* ---- fetchJsonWithRetry(url)
CallFetchJsonWithRetry ==
    /\ rq.pc = "idle"
    /\ rq' = [IdleRq EXCEPT !.pc = "loop", !.attempt = 1]
    /\ UNCHANGED <<fc, qy, bs>>
    /\ UNCHANGED lifecycleVars
    /\ UNCHANGED <<jp, ld>>

\* One iteration of the for loop: fetch(url), then the try or the catch block
RetryAttempt ==
    /\ rq.pc = "loop"
    /\ LoopContinues(rq.attempt)
    /\ \E o \in FetchOutcomes :
         LET it == RetryIteration(rq.attempt, o)
         IN  rq' = [pc |-> IF it.returned THEN "returned" ELSE "loop",
                    attempt |-> IF it.returned THEN rq.attempt ELSE rq.attempt + 1,
                    lastError |-> IF IsFinite(it.caught) THEN it.caught ELSE rq.lastError,
                    slept |-> rq.slept + it.sleep,
                    value |-> it.value,
                    thrown |-> <<>>,
                    log |-> Append(rq.log, o)]
    /\ UNCHANGED <<fc, qy, bs>>
    /\ UNCHANGED lifecycleVars
    /\ UNCHANGED <<jp, ld>>

\* throw lastError ?? new Error('Unknown upstream error')
RetryThrow ==
    /\ rq.pc = "loop"
    /\ ~LoopContinues(rq.attempt)
    /\ rq' = [rq EXCEPT !.pc = "threw",
                        !.thrown = IF IsFinite(rq.lastError) THEN rq.lastError
                                   ELSE <<<<"unknown", 0>>>>]
    /\ UNCHANGED <<fc, qy, bs>>
    /\ UNCHANGED lifecycleVars
    /\ UNCHANGED <<jp, ld>>

NextRetry ==
    \/ CallFetchJsonWithRetry
    \/ RetryAttempt
    \/ RetryThrow

SpecRetry == Init /\ [][NextRetry]_vars

\* ---- fetchAllMinuteCandles(poolAddress, stopBeforeTimestamp)
StartedFc(variant, upstream, stopBeforeTimestamp) ==
    [IdleFc EXCEPT !.pc = "loop", !.variant = variant, !.upstream = upstream,
                   !.stopBeforeTimestamp = stopBeforeTimestamp]

StartFetch ==
    /\ fc.pc = "idle"
    /\ \E variant \in FetchVariants :
       \E upstream \in Upstreams(variant) :
       \E stop \in IF variant = "api" THEN StopBefores ELSE {<<>>} :
           fc' = StartedFc(variant, upstream, stop)
    /\ UNCHANGED <<rq, qy, bs>>
    /\ UNCHANGED lifecycleVars
    /\ UNCHANGED <<jp, ld>>

\* One iteration of the while loop: the page request, which fails or carries
\* an ohlcv list, and the rest of the body
FetchPage ==
    /\ fc.pc = "loop"
    /\ ~fc.break
    /\ WhileCondition(fc.pageCount)
    /\ \/ LET end == PageFailure(fc.candles)
          IN  fc' = [fc EXCEPT !.pc = end.pc, !.series = end.series,
                               !.requests = fc.requests + 1, !.failed = TRUE]
       \/ \E ohlcvList \in PageReplies(fc.variant, fc.upstream, fc) :
            LET st == LoopBody(fc.variant, fc.stopBeforeTimestamp,
                               [candles |-> fc.candles,
                                beforeTimestamp |-> fc.beforeTimestamp,
                                pageCount |-> fc.pageCount,
                                break |-> FALSE],
                               ohlcvList)
            IN  fc' = [fc EXCEPT !.candles = st.candles,
                                 !.beforeTimestamp = st.beforeTimestamp,
                                 !.pageCount = st.pageCount,
                                 !.break = st.break,
                                 !.requests = fc.requests + 1,
                                 !.pages = Append(fc.pages, ohlcvList)]
    /\ UNCHANGED <<rq, qy, bs>>
    /\ UNCHANGED lifecycleVars
    /\ UNCHANGED <<jp, ld>>

\* The loop is over: deduplicate, sort, return
FetchReturn ==
    /\ fc.pc = "loop"
    /\ fc.break \/ ~WhileCondition(fc.pageCount)
    /\ \E series \in ReturnedSeriesOutcomes(fc.candles) :
         fc' = [fc EXCEPT !.pc = "returned", !.series = series]
    /\ UNCHANGED <<rq, qy, bs>>
    /\ UNCHANGED lifecycleVars
    /\ UNCHANGED <<jp, ld>>

NextFetch ==
    \/ StartFetch
    \/ FetchPage
    \/ FetchReturn

SpecFetch == Init /\ [][NextFetch]_vars

\* ---- computeBestSell({ buyPrice, boughtAt }, candles)
CallComputeBestSell ==
    /\ bs.pc = "idle"
    /\ \E buyPrice \in BuyPrices, boughtAt \in BoughtAts, candles \in Series :
         bs' = [pc |-> "returned", buyPrice |-> buyPrice, boughtAt |-> boughtAt,
                candles |-> candles,
                result |-> ComputeBestSell(buyPrice, boughtAt, candles)]
    /\ UNCHANGED <<rq, fc, qy>>
    /\ UNCHANGED lifecycleVars
    /\ UNCHANGED <<jp, ld>>

\* ---- computeBestSellInfo(holding, candles)
CallComputeBestSellInfo ==
    /\ bs.pc = "idle"
    /\ \E buy_price \in HoldingBuyPrices, bought_at \in BoughtAts, candles \in Series :
         bs' = [pc |-> "returnedInfo", buyPrice |-> buy_price, boughtAt |-> bought_at,
                candles |-> candles,
                result |-> ComputeBestSellInfo(buy_price, bought_at, candles)]
    /\ UNCHANGED <<rq, fc, qy>>
    /\ UNCHANGED lifecycleVars
    /\ UNCHANGED <<jp, ld>>

NextBestSell == CallComputeBestSell \/ CallComputeBestSellInfo

SpecBestSell == Init /\ [][NextBestSell]_vars

\* ---- fetchJupiterPrices(mintAddresses)
CallFetchJupiterPrices ==
    /\ jp.pc = "idle"
    /\ \E mintAddresses \in MintLists :
         IF Len(mintAddresses) = 0
         THEN jp' = [IdleJp EXCEPT !.pc = "returned"]
         ELSE \E reply \in OracleReplies(RequestIds(mintAddresses)) :
                jp' = [pc |-> "returned", mintAddresses |-> mintAddresses,
                       requests |-> 1, sent |-> RequestIds(mintAddresses),
                       result |-> FetchJupiterPrices(mintAddresses, reply)]
    /\ UNCHANGED lifecycleVars
    /\ UNCHANGED queryVars
    /\ UNCHANGED ld

NextOracle == CallFetchJupiterPrices

SpecOracle == Init /\ [][NextOracle]_vars

\* ---- the effect on [holdings] and loadBestSellTimes
\* The effect runs for a list of holdings: nothing to load for the empty
\* list, else loadBestSellTimes starts
StartLoad ==
    /\ ld.pc = "idle"
    /\ \E variant \in LoaderVariants, list \in HoldingLists :
         IF Len(list) = 0
         THEN ld' = [ld EXCEPT !.pc = "done", !.variant = variant, !.holdings = list,
                               !.bestSellByHolding = EmptyRecord]
         ELSE ld' = [ld EXCEPT !.pc = "loop", !.variant = variant, !.holdings = list,
                               !.i = 1, !.nextBestSellByHolding = EmptyRecord,
                               !.bestSellLoading = TRUE]
    /\ UNCHANGED lifecycleVars
    /\ UNCHANGED queryVars
    /\ UNCHANGED jp

\* One iteration of the for loop: the try block and its catch
LoadHolding ==
    /\ ld.pc = "loop"
    /\ ld.i <= Len(ld.holdings)
    /\ LET holding == ld.holdings[ld.i]
       IN  \E outcome \in HoldingOutcomes(ld.variant, holding) :
             ld' = [ld EXCEPT
                      !.nextBestSellByHolding =
                          SetEntry(ld.nextBestSellByHolding, KeyOf(holding), EntryOf(outcome)),
                      !.outcomes = Append(ld.outcomes, outcome),
                      !.i = ld.i + 1]
    /\ UNCHANGED lifecycleVars
    /\ UNCHANGED queryVars
    /\ UNCHANGED jp

\* After the loop: the result is published unless the effect was cleaned up
FinishLoad ==
    /\ ld.pc = "loop"
    /\ ld.i > Len(ld.holdings)
    /\ ld' = IF ld.cancelled
             THEN [ld EXCEPT !.pc = "done"]
             ELSE [ld EXCEPT !.pc = "done",
                             !.bestSellByHolding = ld.nextBestSellByHolding,
                             !.bestSellLoading = FALSE]
    /\ UNCHANGED lifecycleVars
    /\ UNCHANGED queryVars
    /\ UNCHANGED jp

\* The cleanup of the effect: the list of holdings changed or the component
\* went away while the load was under way
CleanUp ==
    /\ ld.pc = "loop"
    /\ ~ld.cancelled
    /\ ld' = [ld EXCEPT !.cancelled = TRUE]
    /\ UNCHANGED lifecycleVars
    /\ UNCHANGED queryVars
    /\ UNCHANGED jp

NextLoad ==
    \/ StartLoad
    \/ LoadHolding
    \/ FinishLoad
    \/ CleanUp

SpecLoad == Init /\ [][NextLoad]_vars

\* ---- the handler of /api/best-sell
\* The request arrives: method check (the express copy is routed GET requests
\* only), then the check of the three query parameters
QueryReceive ==
    /\ qy.pc = "idle"
    /\ \E variant \in HandlerVariants :
       \E method \in IF variant = "express" THEN {"GET"} ELSE Methods :
       \E mintAddress \in MintAddresses :
       \E boughtAt \in BoughtAts \cup {EmptyString} :
       \E rawBuyPrice \in QueryBuyPrices :
         LET buyPrice == NumberOf(rawBuyPrice)
             in == [IdleQy EXCEPT !.variant = variant, !.method = method,
                                  !.mintAddress = mintAddress,
                                  !.boughtAt = boughtAt,
                                  !.rawBuyPrice = rawBuyPrice,
                                  !.buyPrice = buyPrice]
         IN  qy' = IF method # "GET"
                   THEN [in EXCEPT !.pc = "responded",
                                   !.response = ErrorAnswer(405, "Method not allowed")]
                   ELSE IF InputRejected(mintAddress, boughtAt, buyPrice)
                   THEN [in EXCEPT !.pc = "responded",
                                   !.response = ErrorAnswer(400, "required")]
                   ELSE [in EXCEPT !.pc = "resolvePool"]
    /\ UNCHANGED <<rq, fc, bs>>
    /\ UNCHANGED lifecycleVars
    /\ UNCHANGED <<jp, ld>>

\* fetchTopSolanaPoolAddress: the listing request fails, or lists no pool, or
\* lists pools, the first of which is taken; then fetchAllMinuteCandles is
\* called, against some upstream that honours the cursor
QueryResolvePool ==
    /\ qy.pc = "resolvePool"
    /\ \/ /\ qy' = [qy EXCEPT !.pc = "responded", !.caught = <<"Failed to load pools">>,
                                !.poolRequests = qy.poolRequests + 1,
                                !.response = CatchAnswer(qy.variant, "Failed to load pools")]
          /\ UNCHANGED fc
       \/ \E listing \in PoolListings :
            IF TopPoolAddress(listing) = ""
            THEN /\ qy' = [qy EXCEPT !.pc = "responded", !.listing = listing,
                                     !.caught = <<"No pool found">>,
                                     !.poolRequests = qy.poolRequests + 1,
                                     !.response = CatchAnswer(qy.variant, "No pool found")]
                 /\ UNCHANGED fc
            ELSE /\ qy' = [qy EXCEPT !.pc = "fetchCandles", !.listing = listing,
                                     !.poolAddress = TopPoolAddress(listing),
                                     !.poolRequests = qy.poolRequests + 1]
                 /\ \E h \in Series, incl \in BOOLEAN :
                      fc' = StartedFc("api", HonestUpstream(h, incl),
                                      FloorOf(qy.variant, qy.boughtAt))
    /\ UNCHANGED <<rq, bs>>
    /\ UNCHANGED lifecycleVars
    /\ UNCHANGED <<jp, ld>>

\* fetchAllMinuteCandles is over: computeBestSell and the 200 answer, or the
\* catch block
QueryRespond ==
    /\ qy.pc = "fetchCandles"
    /\ fc.pc \in {"returned", "threw"}
    /\ qy' = IF fc.pc = "threw"
              THEN [qy EXCEPT !.pc = "responded", !.caught = <<"Failed to load candles">>,
                              !.response = CatchAnswer(qy.variant, "Failed to load candles")]
              ELSE [qy EXCEPT !.pc = "responded",
                              !.response = ResultAnswer(
                                  ComputeBestSell(qy.buyPrice, qy.boughtAt, fc.series))]
    /\ UNCHANGED <<rq, fc, bs>>
    /\ UNCHANGED lifecycleVars
    /\ UNCHANGED <<jp, ld>>

NextQuery ==
    \/ QueryReceive
    \/ QueryResolvePool
    \/ FetchPage
    \/ FetchReturn
    \/ QueryRespond

SpecQuery == Init /\ [][NextQuery]_vars

\* ------------------------------------------------------------------ claims
Rows == 1..Len(holdings)

IsClosed(i) == holdings[i].sell_price # <<>>

\* Exit evaluation of invocation p has selected its coins
Evaluated(p) == hist[p].sellOracle # "none" /\ inv[p].pc \in {"update", "respond", "done"}

\* C1: a position's sell_price is written at most once: a closed row is never
\* changed again (nor removed) by any step, and the open-positions query of a
\* pass never returns a closed row.
C1_SellPriceWrittenOnce ==
    [][ /\ \A i \in Rows :
              IsClosed(i) => i <= Len(holdings') /\ holdings'[i] = holdings[i]
        /\ \A p \in Slots :
              inv'[p].activeHoldings # inv[p].activeHoldings =>
                  \A i \in Range(inv'[p].activeHoldings) :
                      i \in Rows /\ ~IsClosed(i) ]_vars

\* C1 witness: a pass has closed a row while an older row of the same mint,
\* closed in an earlier pass at another price, kept its sell_price.
C1_Witness ==
    \E i, j \in Rows :
        /\ i # j
        /\ holdings[i].mint_address = holdings[j].mint_address
        /\ j \in hist[1].closed
        /\ i \notin hist[1].closed /\ i \notin hist[1].opened
        /\ IsClosed(i) /\ IsClosed(j)
        /\ holdings[i].sell_price # holdings[j].sell_price

\* C2: an active position is selected for closing iff it has been held more
\* than 16 hours, or its buy price is > 0 and the current spot price is
\* > 1.5 x the buy price (no price, or exactly 1.5 x, does not select).
C2_ExitRule ==
    \A p \in Slots :
        Evaluated(p) =>
            inv[p].coinsToSell =
                {i \in Range(inv[p].activeHoldings) :
                    \/ inv[p].now - holdings[i].bought_at > sixteenHours
                    \/ /\ holdings[i].buy_price > 0
                       /\ holdings[i].mint_address \in DOMAIN inv[p].currentPrices
                       /\ 2 * inv[p].currentPrices[holdings[i].mint_address]
                             > 3 * holdings[i].buy_price}

\* C2 witness: one evaluation selects a position held over 16h whose buy price
\* is 0 and leaves open a position whose current price is exactly 1.5 x its buy
\* price.
C2_Witness ==
    /\ Evaluated(1)
    /\ \E i \in inv[1].coinsToSell : holdings[i].buy_price = 0
    /\ \E j \in Range(inv[1].activeHoldings) \ inv[1].coinsToSell :
          /\ holdings[j].mint_address \in DOMAIN inv[1].currentPrices
          /\ holdings[j].buy_price > 0
          /\ 2 * inv[1].currentPrices[holdings[j].mint_address] = 3 * holdings[j].buy_price

\* C3: a pass sets sell_price only on the positions its exit rule selected:
\* every row a pass closed is one of its coinsToSell.
C3_ClosesOnlySelected ==
    \A p \in Slots : hist[p].closed \subseteq inv[p].coinsToSell

\* C4: a pass inserts a Token row and a Position only for feed tokens whose
\* symbol was not in the Token table when the pass started.
C4_OnlyUnknownSymbols ==
    \A p \in Slots :
        /\ \A j \in hist[p].tokensInserted :
              /\ memeList[j].symbol \notin hist[p].knownAtStart
              /\ \E k \in 1..Len(inv[p].tokens) :
                    /\ inv[p].tokens[k].symbol = memeList[j].symbol
                    /\ inv[p].tokens[k].tokenMint = memeList[j].mint_address
        /\ \A i \in hist[p].opened :
              /\ holdings[i].symbol \notin hist[p].knownAtStart
              /\ \E k \in 1..Len(inv[p].tokens) :
                    /\ inv[p].tokens[k].symbol = holdings[i].symbol
                    /\ inv[p].tokens[k].tokenMint = holdings[i].mint_address

\* C4 witness: the feed holds A and B, A was known, and the completed pass
\* inserted a Token and a Position for B only.
C4_Witness ==
    /\ inv[1].pc = "done"
    /\ hist[1].knownAtStart = {"A"}
    /\ SymbolsOf(inv[1].tokens) = {"A", "B"}
    /\ hist[1].tokensInserted # {} /\ hist[1].opened # {}
    /\ \A j \in hist[1].tokensInserted : memeList[j].symbol = "B"
    /\ \A i \in hist[1].opened : holdings[i].symbol = "B"

\* C5: the Token table holds at most one row per symbol, and no step modifies
\* or deletes an existing Token row.
C5_OneTokenPerSymbol ==
    [][ /\ \A i, j \in 1..Len(memeList') :
              memeList'[i].symbol = memeList'[j].symbol => i = j
        /\ Len(memeList') >= Len(memeList)
        /\ \A i \in 1..Len(memeList) : memeList'[i] = memeList[i] ]_vars

\* C6: a pass replaying the feed of the pass before it, which opened positions
\* for that feed, inserts no Token and no Position and reports 0 opened.
C6_ReplayOpensNothing ==
    \A p \in Slots :
        ( /\ inv[p].pc = "done"
          /\ inv[p].response.status = 200
          /\ lastRun # <<>>
          /\ inv[p].tokens = lastRun )
        => /\ inv[p].response.new_memes_added = 0
           /\ hist[p].opened = {}
           /\ hist[p].tokensInserted = {}

\* C7: when the Holdings insert of a pass goes through, the pass has inserted
\* exactly one Position per newly discovered token, in feed order, open
\* (sell_price NULL), bought now, at the price the oracle adapter returned for
\* the token's mint, or at 0 when it returned none.
C7_OnePositionPerNewToken ==
    \A p \in Slots :
        (inv[p].pc = "selectActive" /\ hist[p].holdingsInsert = "ok") =>
            LET new == SelectSeq(inv[p].tokens,
                                 LAMBDA t : t.symbol \notin hist[p].knownAtStart)
                base == Len(holdings) - Len(new)
            IN  /\ base >= 0
                /\ hist[p].opened = (base + 1)..Len(holdings)
                /\ \A k \in 1..Len(new) :
                      LET h == holdings[base + k]
                      IN  /\ h.symbol = new[k].symbol
                          /\ h.mint_address = new[k].tokenMint
                          /\ h.bought_at = clock
                          /\ h.sell_price = <<>>
                          /\ new[k].tokenMint \in DOMAIN inv[p].prices
                                => h.buy_price = inv[p].prices[new[k].tokenMint]
                          /\ new[k].tokenMint \notin DOMAIN inv[p].prices
                                => h.buy_price = 0

\* C7 witness: a pass has just inserted two Positions, one at the price the
\* oracle returned for its mint and one at 0 because the oracle had no price
\* for its mint.
C7_Witness ==
    /\ inv[1].pc = "selectActive"
    /\ hist[1].holdingsInsert = "ok"
    /\ hist[1].buyOracle = "ok"
    /\ \E i, j \in hist[1].opened :
          /\ holdings[i].buy_price > 0
          /\ holdings[i].buy_price = inv[1].prices[holdings[i].mint_address]
          /\ holdings[j].buy_price = 0
          /\ holdings[j].mint_address \notin DOMAIN inv[1].prices

\* C8: the summary's opened count is the number of Positions the pass
\* inserted and its closed count is the number of Positions whose sell_price
\* went from NULL to a value in the pass.
C8_SummaryAccurate ==
    \A p \in Slots :
        (inv[p].pc = "done" /\ inv[p].response.status = 200) =>
            /\ inv[p].response.new_memes_added = Cardinality(hist[p].opened)
            /\ inv[p].response.trades_closed = Cardinality(hist[p].closed)

\* C9: when the update of a selected position fails, the pass still answers
\* with its summary, the other selected positions are closed, and the summary
\* reports the failure: it does not count the failed close as a closed trade.
C9_FailedCloseReported ==
    \A p \in Slots :
        (inv[p].pc = "done" /\ hist[p].failed # {}) =>
            /\ inv[p].response.status = 200
            /\ \A i \in inv[p].coinsToSell \ hist[p].failed : IsClosed(i)
            /\ inv[p].response.trades_closed
                  = Cardinality(inv[p].coinsToSell \ hist[p].failed)

\* C10: an oracle failure degrades the pass instead of aborting it: the adapter
\* returns the empty mapping, positions the pass opens get buy price 0, the
\* positions it selects are those held over 16h and what it closes gets sell
\* price 0, and the pass ends with its summary, not with an error.
C10_OracleFailureDegrades ==
    \A p \in Slots :
        /\ hist[p].buyOracle = "failed" => inv[p].prices = EmptyMap
        /\ hist[p].buyOracle = "failed" =>
              \A i \in hist[p].opened : holdings[i].buy_price = 0
        /\ (hist[p].sellOracle = "failed" /\ Evaluated(p)) =>
              /\ inv[p].currentPrices = EmptyMap
              /\ \A i \in inv[p].coinsToSell :
                    inv[p].now - holdings[i].bought_at > sixteenHours
              /\ \A i \in hist[p].closed : holdings[i].sell_price = <<0>>
        /\ ( /\ inv[p].pc = "done"
             /\ "failed" \in {hist[p].buyOracle, hist[p].sellOracle} ) =>
              inv[p].response.status = 200

\* C10 witness: a completed pass both of whose oracle calls failed opened a
\* position at buy price 0 and closed, at sell price 0, a position held over
\* 16h that had been bought at a known price.
C10_Witness ==
    /\ inv[1].pc = "done"
    /\ inv[1].response.status = 200
    /\ hist[1].buyOracle = "failed" /\ hist[1].sellOracle = "failed"
    /\ hist[1].opened # {}
    /\ \E i \in hist[1].closed :
          holdings[i].buy_price > 0 /\ holdings[i].sell_price = <<0>>

\* ---- claims on the best-exit query

\* C11: whatever raw pages the upstream served (overlapping ones included),
\* the series fetchAllMinuteCandles returns is strictly ascending by timestamp,
\* so no timestamp occurs twice in it (its timestamps being numbers, as the
\* copies C11 is about make sure by their filter).
C11_SeriesStrictlyAscending ==
    (fc.pc = "returned" /\ \A i \in 1..Len(fc.series) : fc.series[i].timestamp # NotANumber) =>
        \A i \in 1..Len(fc.series) - 1 :
            fc.series[i].timestamp < fc.series[i + 1].timestamp

\* Two pages that overlap (a timestamp fetched twice), and a series of two
\* candles or more returned
C11_Witness ==
    /\ fc.pc = "returned"
    /\ fc.requests >= 2
    /\ Len(fc.series) >= 2
    /\ \E i, j \in 1..Len(fc.candles) :
          i < j /\ fc.candles[i].timestamp = fc.candles[j].timestamp

\* C12: a request answered 429 or 5xx is issued again, with at most 3 attempts
\* in all; if any of the attempts is answered 2xx the call returns that
\* response's body; there is never a 4th attempt.
C12_RetryBudget ==
    LET over == rq.pc \in {"returned", "threw"}
        Ok(k) == rq.log[k].kind = "response" /\ rq.log[k].status \in 200..299
        Busy(k) == rq.log[k].kind = "response"
                   /\ (rq.log[k].status = 429 \/ rq.log[k].status >= 500)
    IN  /\ Len(rq.log) <= 3
        /\ \A k \in 1..Len(rq.log) : (over /\ Busy(k) /\ k < 3) => Len(rq.log) > k
        /\ over => ((\E k \in 1..Len(rq.log) : Ok(k)) <=> rq.pc = "returned")
        /\ rq.pc = "returned" =>
              Ok(Len(rq.log)) /\ rq.value = rq.log[Len(rq.log)].body

\* 500, 500, 200: the call returns the third response's body
C12_Witness ==
    /\ rq.pc = "returned"
    /\ Len(rq.log) = 3
    /\ rq.log[1].status = 500 /\ rq.log[2].status = 500 /\ rq.log[3].status = 200
    /\ rq.value = rq.log[3].body

\* C13: a response that is neither 2xx nor 429 nor 5xx (a 404, say) ends the
\* call at once: it is the last attempt, and the call does not return a body.
C13_NonRetryableFailsAtOnce ==
    \A k \in 1..Len(rq.log) :
        (/\ rq.log[k].kind = "response"
         /\ rq.log[k].status \notin 200..299
         /\ rq.log[k].status # 429
         /\ rq.log[k].status < 500)
        => (k = Len(rq.log) /\ rq.pc # "returned")

\* C14: once a page request has failed the call has thrown and hands no
\* candle to its caller, whatever the earlier pages held.
C14_AllOrNothing ==
    fc.failed => (fc.pc = "threw" /\ fc.series = <<>>)

\* A page request that failed after a page with candles had been retrieved
C14_Witness ==
    /\ fc.failed
    /\ fc.pc = "threw"
    /\ fc.requests >= 2
    /\ Len(fc.candles) > 0

\* C15: a call never issues more than 100 page requests, and it terminates:
\* every request that does not end the loop raises pageCount, which the loop
\* condition caps, so the number of requests left strictly decreases.
C15_AtMostHundredPages ==
    /\ fc.requests <= 100
    /\ fc.pageCount <= fc.requests
    /\ (fc.pc = "loop" /\ ~fc.break) => fc.requests = fc.pageCount

\* The upstream served the same full page for ever: the call returned after
\* its 100th request
C15_Witness ==
    /\ fc.pc = "returned"
    /\ fc.variant = "api"
    /\ fc.requests = 100
    /\ Len(fc.candles) >= 100

\* C16: against an upstream that honours before_timestamp, the result
\* computeBestSell draws from the series fetched with the purchase second as
\* floor is the result it draws from the series fetched with no floor.
C16_FloorIsOptimisationOnly ==
    (fc.pc = "returned" /\ fc.upstream.mode = "honest"
        /\ IsFinite(fc.stopBeforeTimestamp)) =>
        \A buyPrice \in BuyPrices, boughtAt \in BoughtAts :
            UnixSeconds(boughtAt) = fc.stopBeforeTimestamp =>
                ComputeBestSell(buyPrice, boughtAt, fc.series)
                = ComputeBestSell(buyPrice, boughtAt,
                                  FetchAllMinuteCandles("api", fc.upstream, <<>>))

\* The floor cut the fetch short (the series with no floor is longer), and the
\* result is a populated one
C16_Witness ==
    /\ fc.pc = "returned"
    /\ fc.upstream.mode = "honest"
    /\ IsFinite(fc.stopBeforeTimestamp)
    /\ fc.series # FetchAllMinuteCandles("api", fc.upstream, <<>>)
    /\ \E boughtAt \in BoughtAts :
          /\ UnixSeconds(boughtAt) = fc.stopBeforeTimestamp
          /\ ComputeBestSell(<<1>>, boughtAt, fc.series) # nullBestSell

\* The purchase second of a call whose boughtAt parsed: floor of ms / 1000,
\* said without the division (t is at or after it iff t * 1000 + 1000 > ms)
AtOrAfterPurchase(t, boughtAt) == t * 1000 + 1000 > boughtAt[2]

Parses(boughtAt) == boughtAt[1] = "iso"

Populated(result) ==
    /\ result.bestSellAt # <<>>
    /\ result.bestSellPrice # <<>>
    /\ result.bestPlPercent # <<>>

\* C17: for a buyPrice above 0, a boughtAt the calculator takes as valid (it
\* parses, to a purchase second above 0) and a series with a candle at or
\* after the purchase second, the result is the candle of greatest high among
\* those at or after the purchase second, the earliest of them on a tie, with
\* bestPlPercent = (high - buyPrice) / buyPrice * 100.
C17_GreatestHighEarliestFirst ==
    (/\ bs.pc = "returned"
     /\ IsFinite(bs.buyPrice) /\ bs.buyPrice[1] > 0
     /\ Parses(bs.boughtAt) /\ bs.boughtAt[2] >= 1000
     /\ \E i \in 1..Len(bs.candles) :
           AtOrAfterPurchase(bs.candles[i].timestamp, bs.boughtAt))
    => \E i \in 1..Len(bs.candles) :
         /\ AtOrAfterPurchase(bs.candles[i].timestamp, bs.boughtAt)
         /\ \A j \in 1..Len(bs.candles) :
               AtOrAfterPurchase(bs.candles[j].timestamp, bs.boughtAt) =>
                 /\ bs.candles[j].high <= bs.candles[i].high
                 /\ bs.candles[j].high = bs.candles[i].high =>
                       bs.candles[i].timestamp <= bs.candles[j].timestamp
         /\ bs.result.bestSellAt = <<"ISO", bs.candles[i].timestamp * 1000>>
         /\ bs.result.bestSellPrice = <<bs.candles[i].high>>
         /\ Len(bs.result.bestPlPercent) = 1
         /\ bs.result.bestPlPercent[1] * bs.buyPrice[1]
              = (bs.candles[i].high - bs.buyPrice[1]) * 100

\* Candles (100, 2), (160, 5), (220, 3), bought at t = 100 for 1: sell at
\* t = 160 for 5, 400 per cent up
C17_Witness ==
    /\ bs.pc = "returned"
    /\ bs.buyPrice = <<1>>
    /\ bs.boughtAt = IsoDate(100000)
    /\ bs.candles = <<[timestamp |-> 100, high |-> 2], [timestamp |-> 160, high |-> 5],
                      [timestamp |-> 220, high |-> 3]>>
    /\ bs.result = [bestSellAt |-> <<"ISO", 160000>>, bestSellPrice |-> <<5>>,
                    bestPlPercent |-> <<400>>]

\* C18: computeBestSell returns (it never throws), and returns the all-null
\* result, whenever buyPrice is not a finite number above 0, or boughtAt does
\* not parse, or the series is empty or wholly earlier than the purchase second.
C18_InvalidArgumentsGiveNull ==
    (/\ bs.pc = "returned"
     /\ \/ ~IsFinite(bs.buyPrice)
        \/ bs.buyPrice[1] <= 0
        \/ ~Parses(bs.boughtAt)
        \/ \A i \in 1..Len(bs.candles) :
              ~AtOrAfterPurchase(bs.candles[i].timestamp, bs.boughtAt))
    => bs.result = nullBestSell

\* A buyPrice of -5 is the only thing amiss: the date is valid and a candle
\* follows it
C18_Witness ==
    /\ bs.pc = "returned"
    /\ bs.buyPrice = <<0 - 5>>
    /\ bs.boughtAt = IsoDate(100000)
    /\ Len(bs.candles) > 0
    /\ bs.result = nullBestSell

\* C19, as the claim has it: the three fields are present together or absent
\* together, and for a finite buyPrice above 0, a boughtAt that parses to an
\* instant, whatever instant it is, and a series with a candle at or after the
\* purchase second, the result is populated.
C19_NullOnlyInThreeCases ==
    bs.pc = "returned" =>
        /\ Populated(bs.result) \/ bs.result = nullBestSell
        /\ (/\ IsFinite(bs.buyPrice) /\ bs.buyPrice[1] > 0
            /\ Parses(bs.boughtAt)
            /\ \E i \in 1..Len(bs.candles) :
                  AtOrAfterPurchase(bs.candles[i].timestamp, bs.boughtAt))
           => Populated(bs.result)

\* C19, amended: as above, for a boughtAt that parses to an instant at least
\* one second after the Unix epoch (a purchase second above 0).
C19_NullOnlyInFourCases ==
    bs.pc = "returned" =>
        /\ Populated(bs.result) \/ bs.result = nullBestSell
        /\ (/\ IsFinite(bs.buyPrice) /\ bs.buyPrice[1] > 0
            /\ Parses(bs.boughtAt) /\ bs.boughtAt[2] >= 1000
            /\ \E i \in 1..Len(bs.candles) :
                  AtOrAfterPurchase(bs.candles[i].timestamp, bs.boughtAt))
           => Populated(bs.result)

\* The one candle of the series lies in the purchase second itself, half a
\* second before boughtAt: the result is populated
C19_Witness ==
    /\ bs.pc = "returned"
    /\ bs.buyPrice = <<2>>
    /\ bs.boughtAt = IsoDate(160500)
    /\ Len(bs.candles) = 1
    /\ bs.candles[1].timestamp = 160
    /\ Populated(bs.result)

\* C20: the endpoint never answers upstream trouble with a hard failure: when
\* the pool resolution or the candle retrieval has failed the answer is a 200
\* carrying the all-null result and a warning; an answer other than 200 goes
\* to malformed input only (a wrong method, a missing or non-numeric parameter).
C20_UpstreamTroubleIsSoft ==
    qy.pc = "responded" =>
        /\ qy.caught # <<>> =>
              /\ qy.response.status = 200
              /\ qy.response.result = nullBestSell
              /\ qy.response.warning # <<>>
        /\ qy.response.status # 200 =>
              \/ qy.method # "GET"
              \/ qy.mintAddress = ""
              \/ qy.boughtAt = EmptyString
              \/ ~IsFinite(qy.buyPrice)

\* The request was answered with this error status and no request went
\* upstream, to the pool listing or to the candle history
Refused(status) ==
    /\ qy.pc = "responded"
    /\ qy.response.status = status
    /\ qy.response.error # <<>>
    /\ qy.poolRequests = 0
    /\ fc = IdleFc

C22_FirstPoolOrFailure ==
    /\ (qy.poolRequests > 0 /\ qy.caught # <<"Failed to load pools">>) =>
           IF qy.listing = <<>> \/ qy.listing[1] = ""
           THEN /\ qy.pc = "responded"
                /\ qy.caught = <<"No pool found">>
                /\ qy.poolAddress = ""
                /\ fc = IdleFc
           ELSE qy.poolAddress = qy.listing[1]
    /\ qy.caught = <<"Failed to load pools">> => fc = IdleFc
    /\ fc.requests > 0 => qy.poolRequests = 1 /\ qy.poolAddress # ""

\* C22 witness: of two pools listed the first was taken and a candle page was
\* requested; reached next to a listing whose first entry has no address.
C22_Witness ==
    /\ qy.listing = <<"p2", "p1">>
    /\ qy.poolAddress = "p2"
    /\ fc.requests > 0
    /\ qy.pc = "responded"

\* ---- claims on the pages of fetchAllMinuteCandles

\* A raw row is valid: timestamp and high parse to finite numbers, high > 0
ValidRow(row) ==
    /\ IsFinite(NumberOf(row.r0))
    /\ IsFinite(NumberOf(row.r2))
    /\ NumberOf(row.r2)[1] > 0

CandleOf(row) == [timestamp |-> NumberOf(row.r0)[1], high |-> NumberOf(row.r2)[1]]

\* The page is one after which the fetcher is to stop
LastPageStops(page, floor) ==
    \/ Len(page) = 0
    \/ \A i \in 1..Len(page) : ~ValidRow(page[i])
    \/ Len(page) < PageLimit
    \/ /\ IsFinite(floor)
       /\ \E i \in 1..Len(page) :
             ValidRow(page[i]) /\ CandleOf(page[i]).timestamp <= floor[1]

\* C25: after a page that is empty, or has no valid row, or has fewer rows
\* than the page limit, or (a floor being given) has a valid timestamp <= the
\* floor, fetchAllMinuteCandles requests no further page.
C25_NoPageAfterLastPage ==
    [][ ( /\ fc.pc = "loop"
          /\ Len(fc.pages) > 0
          /\ LastPageStops(fc.pages[Len(fc.pages)], fc.stopBeforeTimestamp) )
        => fc'.requests = fc.requests ]_vars

\* C26: of the valid raw rows fetched in one call that carry the same
\* timestamp, whether in different pages or in one, the returned series holds
\* the candle of the one fetched last.
C26_LatestFetchedWins ==
    fc.pc = "returned" =>
        \A p \in 1..Len(fc.pages) : \A i \in 1..Len(fc.pages[p]) :
            LET row == fc.pages[p][i]
                Later(q, j) == q > p \/ (q = p /\ j > i)
            IN  ( /\ ValidRow(row)
                  /\ \A q \in 1..Len(fc.pages) : \A j \in 1..Len(fc.pages[q]) :
                        ( /\ Later(q, j)
                          /\ ValidRow(fc.pages[q][j]) )
                        => CandleOf(fc.pages[q][j]).timestamp # CandleOf(row).timestamp )
                => /\ \E k \in 1..Len(fc.series) : fc.series[k] = CandleOf(row)
                   /\ \A k \in 1..Len(fc.series) :
                         fc.series[k].timestamp = CandleOf(row).timestamp
                             => fc.series[k] = CandleOf(row)

\* C26 witness: a timestamp was fetched with one high in the first page and
\* with another in the second, and twice in one page with different highs;
\* the series holds the later one each time.
C26_Witness ==
    /\ fc.pc = "returned"
    /\ Len(fc.pages) >= 2
    /\ \E i \in 1..Len(fc.pages[1]), j \in 1..Len(fc.pages[2]) :
          /\ ValidRow(fc.pages[1][i]) /\ ValidRow(fc.pages[2][j])
          /\ CandleOf(fc.pages[1][i]).timestamp = CandleOf(fc.pages[2][j]).timestamp
          /\ CandleOf(fc.pages[1][i]).high # CandleOf(fc.pages[2][j]).high
    /\ Len(fc.pages[2]) = 2
    /\ ValidRow(fc.pages[2][1]) /\ ValidRow(fc.pages[2][2])
    /\ CandleOf(fc.pages[2][1]).timestamp = CandleOf(fc.pages[2][2]).timestamp
    /\ CandleOf(fc.pages[2][1]).high # CandleOf(fc.pages[2][2]).high
    /\ \E k \in 1..Len(fc.series) : fc.series[k] = CandleOf(fc.pages[2][2])

\* C27: every candle of the returned series has a finite timestamp and a
\* finite high > 0; an invalid raw row is dropped without an error, and every
\* valid row of every page fetched has its timestamp in the series.
C27_OnlyValidRowsKept ==
    fc.pc = "returned" =>
        /\ \A k \in 1..Len(fc.series) :
              fc.series[k].timestamp # NotANumber /\ fc.series[k].high > 0
        /\ \A p \in 1..Len(fc.pages) : \A i \in 1..Len(fc.pages[p]) :
              ValidRow(fc.pages[p][i]) =>
                  \E k \in 1..Len(fc.series) :
                      fc.series[k].timestamp = CandleOf(fc.pages[p][i]).timestamp

\* ---- further claims on the lifecycle pass

\* C24: the sell_price written when a pass closes a position is the spot price
\* of the position's mint in the price snapshot the pass fetched for its exit
\* evaluation (the one its exit decision was taken on), or 0 when the snapshot
\* has no price for the mint.
C24_SellPriceFromSnapshot ==
    \A p \in Slots : \A i \in hist[p].closed :
        /\ hist[p].sellOracle # "none"
        /\ i \in Rows
        /\ holdings[i].sell_price =
               IF holdings[i].mint_address \in DOMAIN inv[p].currentPrices
               THEN <<inv[p].currentPrices[holdings[i].mint_address]>>
               ELSE <<0>>

\* C24 witness: one pass closed a position at the snapshot's price of its mint
\* and another, whose mint the snapshot does not price, at 0.
C24_Witness ==
    \E i, j \in hist[1].closed :
        /\ holdings[i].mint_address \in DOMAIN inv[1].currentPrices
        /\ holdings[i].sell_price = <<inv[1].currentPrices[holdings[i].mint_address]>>
        /\ holdings[j].mint_address \notin DOMAIN inv[1].currentPrices
        /\ inv[1].currentPrices # EmptyMap
        /\ holdings[j].sell_price = <<0>>

\* C30: a pass that ends with the error response (its discovery feed was
\* invalid or its known-symbols query failed) has written nothing: it inserted
\* no Token and no Position, closed no Position, asked the oracle nothing and
\* never came to exit evaluation.
C30_FailedDiscoveryWritesNothing ==
    \A p \in Slots :
        inv[p].response = ErrorResponse =>
            /\ inv[p].pc = "done"
            /\ hist[p].tokensInserted = {} /\ hist[p].memeInsert = "none"
            /\ hist[p].opened = {} /\ hist[p].holdingsInsert = "none"
            /\ hist[p].closed = {} /\ hist[p].failed = {}
            /\ hist[p].buyOracle = "none" /\ hist[p].sellOracle = "none"
            /\ inv[p].activeHoldings = <<>> /\ inv[p].coinsToSell = {}
            /\ inv[p].soldCount = 0 /\ inv[p].boughtCount = 0

\* C30 witness: a pass ended with the error response while a position held
\* for more than 16 hours is still open.
C30_Witness ==
    /\ inv[1].pc = "done"
    /\ inv[1].response = ErrorResponse
    /\ \E i \in Rows : ~IsClosed(i) /\ clock - holdings[i].bought_at > sixteenHours

\* ---- claims on the price oracle adapter

\* C28 as stated: at most 100 addresses go into the single upstream call, the
\* first 100 of a longer list, and every address after the 100th has no entry
\* in the returned mapping.
C28_BeyondHundredUnpriced ==
    jp.pc = "returned" =>
        LET m == jp.mintAddresses
        IN  /\ jp.requests <= 1
            /\ Cardinality(jp.sent) <= JupiterBatch
            /\ Len(m) > JupiterBatch => jp.sent = {m[k] : k \in 1..JupiterBatch}
            /\ \A k \in (JupiterBatch + 1)..Len(m) : m[k] \notin DOMAIN jp.result

\* C28: at most 100 addresses go into the single upstream call, the first 100
\* of a longer list, and every address after the 100th that is not also among
\* the first 100 has no entry in the returned mapping.
C28_BeyondHundredUnpricedUnlessRepeated ==
    jp.pc = "returned" =>
        LET m == jp.mintAddresses
        IN  /\ jp.requests <= 1
            /\ Cardinality(jp.sent) <= JupiterBatch
            /\ Len(m) > JupiterBatch => jp.sent = {m[k] : k \in 1..JupiterBatch}
            /\ \A k \in (JupiterBatch + 1)..Len(m) :
                  (\A j \in 1..JupiterBatch : m[j] # m[k]) => m[k] \notin DOMAIN jp.result

\* C28 witness: more than 100 distinct addresses were given, the oracle priced
\* every address it was asked, and the last address given has no price.
C28_Witness ==
    /\ jp.pc = "returned"
    /\ Len(jp.mintAddresses) > JupiterBatch
    /\ \A j, k \in 1..Len(jp.mintAddresses) :
          j # k => jp.mintAddresses[j] # jp.mintAddresses[k]
    /\ DOMAIN jp.result = jp.sent
    /\ Cardinality(jp.sent) = JupiterBatch
    /\ jp.mintAddresses[Len(jp.mintAddresses)] \notin DOMAIN jp.result

\* ---- claims on overlapping passes

\* C23: with two passes overlapping, whatever the interleaving of their select
\* and update steps, a sell_price once written is never written again: each
\* position's sell_price goes from absent to a value at most once.
C23_NoOverwriteUnderOverlap ==
    [][ \A i \in 1..Len(holdings) :
            holdings[i].sell_price # <<>> =>
                /\ i <= Len(holdings')
                /\ holdings'[i].sell_price = holdings[i].sell_price ]_vars

\* C23 witness: both passes selected the same open position, on snapshots
\* that price it differently; both have issued their updates; the position
\* carries the price of one of them and the other pass has closed nothing.
C23_Witness ==
    \E i \in Rows :
        /\ i \in inv[1].coinsToSell /\ i \in inv[2].coinsToSell
        /\ inv[1].pc = "respond" /\ inv[2].pc = "respond"
        /\ hist[1].failed = {} /\ hist[2].failed = {}
        /\ SellPriceOf(holdings[i], inv[1].currentPrices)
               # SellPriceOf(holdings[i], inv[2].currentPrices)
        /\ holdings[i].sell_price = <<SellPriceOf(holdings[i], inv[2].currentPrices)>>
        /\ hist[1].closed = {}
        /\ i \in hist[2].closed

\* ---- claims on the holding ceiling

\* The pass in slot p has been through exit evaluation and none of its
\* updates failed
ClosedItsCoins(p) ==
    /\ inv[p].pc \in {"respond", "done"}
    /\ hist[p].sellOracle # "none"
    /\ hist[p].failed = {}

\* C29: a pass that has been through exit evaluation (its updates not failing)
\* leaves closed every position it found open with now - bought_at > 16 h,
\* whatever the oracle answered and however many they are; and with passes
\* invoked again and again, time passing, and feed and store not failing for
\* ever, all the positions are closed in the end.
C29_CeilingClosesInTheEnd ==
    /\ [](\A p \in Slots :
            ClosedItsCoins(p) =>
                \A i \in Range(inv[p].activeHoldings) :
                    inv[p].now - holdings[i].bought_at > sixteenHours => IsClosed(i))
    /\ <>[](\A i \in Rows : IsClosed(i))

\* C29 witness: a pass whose oracle request failed has closed two positions
\* held for more than 16 hours, at 0, and no position is open.
C29_Witness ==
    /\ ClosedItsCoins(1)
    /\ hist[1].sellOracle = "failed"
    /\ inv[1].currentPrices = EmptyMap
    /\ Cardinality(hist[1].closed) = 2
    /\ \A i \in Rows :
          /\ IsClosed(i)
          /\ inv[1].now - holdings[i].bought_at > sixteenHours
          /\ holdings[i].sell_price = <<0>>

\* ---- claims on a failed Holdings insert

\* The symbol has a Token record and no Position, and it is not a symbol that
\* was unknown when a pass began which is now between its two inserts
KnownNeverBought(s) ==
    /\ \E k \in 1..Len(memeList) : memeList[k].symbol = s
    /\ \A i \in 1..Len(holdings) : holdings[i].symbol # s
    /\ \A p \in Slots :
          (inv[p].pc \in {"fetchBuyPrices", "insertHoldings"}
                /\ s \notin hist[p].knownAtStart) =>
              \A k \in 1..Len(inv[p].newTokens) : inv[p].newTokens[k].symbol # s

\* C31: a pass whose Holdings insert failed after its Meme List insert went
\* through counts 0 opened, opens nothing and goes on to exit evaluation,
\* answering 200; and a symbol that has a Token record and no Position gets
\* no Position in any later step (the token stays known and is never bought).
C31_FailedOpenIsNeverRetried ==
    /\ [](\A p \in Slots :
            (hist[p].memeInsert = "ok" /\ hist[p].holdingsInsert = "failed") =>
                /\ inv[p].boughtCount = 0
                /\ hist[p].opened = {}
                /\ hist[p].tokensInserted # {}
                /\ inv[p].pc \in {"selectActive", "fetchCurrentPrices", "update",
                                  "respond", "done"}
                /\ inv[p].pc = "done" =>
                      /\ inv[p].response.status = 200
                      /\ inv[p].response.new_memes_added = 0)
    /\ [][ \A s \in Symbols :
              KnownNeverBought(s) =>
                  \A i \in 1..Len(holdings') : holdings'[i].symbol # s ]_vars

\* C31 witness: the second pass inserted a Token record, failed to insert its
\* Position, still closed an older position in its exit evaluation and
\* answered with 0 opened; the token is known and has no Position.
C31_Witness ==
    /\ hist[1].memeInsert = "ok" /\ hist[1].holdingsInsert = "failed"
    /\ inv[1].pc = "done"
    /\ inv[1].response.status = 200
    /\ inv[1].response.new_memes_added = 0
    /\ inv[1].response.trades_closed > 0
    /\ hist[1].closed # {}
    /\ \E s \in Symbols : KnownNeverBought(s)

\* ---- claims on the two copies of the calculator
\* The instant a bestSellAt string names, whatever its notation
InstantOf(bestSellAt) == bestSellAt[2]

SameBestExit(info, api) ==
    /\ Populated(info) <=> Populated(api)
    /\ info = nullBestSell <=> api = nullBestSell
    /\ Populated(api) =>
          /\ InstantOf(info.bestSellAt) = InstantOf(api.bestSellAt)
          /\ info.bestSellPrice = api.bestSellPrice
          /\ info.bestPlPercent = api.bestPlPercent

\* C32: for every holding and every candle series, what computeBestSellInfo
\* returned and what computeBestSell returns for the same buy price, bought-at
\* and series are both all-absent or both populated, and when populated they
\* name the same instant, the same price and the same return percent.
C32_CalculatorsAgree ==
    bs.pc = "returnedInfo" =>
        SameBestExit(bs.result, ComputeBestSell(bs.buyPrice, bs.boughtAt, bs.candles))

\* ---- claims on the dashboard's loader
LoopFinished == ld.pc \in {"loop", "done"} /\ ld.i > Len(ld.holdings)

\* C33: when loadBestSellTimes has gone through the list, every holding was
\* processed whatever failed before it, every holding has an entry, and the
\* entry of a holding is the all-absent result when its own pool resolution,
\* candle fetch or API call failed and its own best-exit information when not.
C33_FailureStaysWithItsHolding ==
    /\ ld.pc = "loop" => Len(ld.outcomes) = ld.i - 1
    /\ LoopFinished =>
          /\ Len(ld.outcomes) = Len(ld.holdings)
          /\ \A j \in 1..Len(ld.holdings) :
                /\ KeyOf(ld.holdings[j]) \in DOMAIN ld.nextBestSellByHolding
                /\ ld.nextBestSellByHolding[KeyOf(ld.holdings[j])] =
                      IF ld.outcomes[j].threw THEN nullBestSell ELSE ld.outcomes[j].info

\* ---- claims on the pagination cursor

\* The oldest timestamp among the valid rows of a page that has one
OldestValid(page) ==
    CHOOSE t \in {CandleOf(page[i]).timestamp : i \in {j \in 1..Len(page) : ValidRow(page[j])}} :
        \A i \in 1..Len(page) : ValidRow(page[i]) => t <= CandleOf(page[i]).timestamp

\* C34: whenever fetchAllMinuteCandles is about to request a page, its cursor
\* is unset if this is the first request and otherwise is the oldest valid
\* timestamp of the page fetched before, less 60 seconds.
C34_CursorFollowsOldestTimestamp ==
    (fc.pc = "loop" /\ ~fc.break /\ WhileCondition(fc.pageCount)) =>
        IF Len(fc.pages) = 0
        THEN fc.beforeTimestamp = NullCursor
        ELSE LET page == fc.pages[Len(fc.pages)]
             IN  /\ \E i \in 1..Len(page) : ValidRow(page[i])
                 /\ fc.beforeTimestamp = NumCursor(OldestValid(page) - cursorStep)

====
